---- MODULE Spec2Model ----
(***************************************************************************)
(* A model of WebScreenShot (src/web_screenshot.py): the browser session   *)
(* (open / close / context manager), the two capture operations and the    *)
(* page they drive.                                                        *)
(*                                                                         *)
(* Every call the program makes to a collaborator (the browser driver, a   *)
(* page, the image encoder, the filesystem) is an event.  A handler is a   *)
(* plan: the events of its body in source order.  The environment chooses  *)
(* what the page reports (its measured sizes) and which call, if any,      *)
(* raises; the handler's except / finally clauses then run as in the       *)
(* source.  The events a call attempted are kept in last.log.              *)
(***************************************************************************)
EXTENDS Integers, Sequences, FiniteSets, TLC

VARIABLES
    config,        \* self.config (ScreenShotConfig), fixed at construction
    is_open,       \* self._is_open
    playwright,    \* self._playwright: 0 is None, else the driver instance's id
    browser,       \* self._browser: 0 is None, else the browser process's id
    liveDrivers,   \* driver instances started and not stopped
    liveBrowsers,  \* browser processes launched and not closed
    nStart,        \* driver instances started so far
    nLaunch,       \* browser processes launched so far
    nShutdown,     \* browser processes shut down so far
    openPages,     \* pages created by the browser and not closed
    last,          \* the last call: operation, arguments, attempted events, outcome
    calls          \* number of calls made so far

vars == <<config, is_open, playwright, browser, liveDrivers, liveBrowsers,
          nStart, nLaunch, nShutdown, openPages, last, calls>>

(***************************************************************************)
(* Bounds of the model.                                                    *)
(***************************************************************************)
MaxCalls == 2          \* calls per behaviour
MaxIterations == 8     \* iterations of the scroll loop that are counted

(***************************************************************************)
(* Program constants.                                                      *)
(***************************************************************************)
BlankWidth == 800
BlankHeight == 600
DefaultMaxViewportWidth == 7680
DefaultMaxViewportHeight == 43200
NumPopupSelectors == 12      \* len(popup_selectors)

Min(a, b) == IF a <= b THEN a ELSE b

(***************************************************************************)
(* URLs, as urlparse splits them: a scheme and a network location.         *)
(***************************************************************************)
Urls == [scheme : {"", "http", "https", "ftp"}, netloc : {"", "example.com"}]
Url(scheme, netloc) == [scheme |-> scheme, netloc |-> netloc]

\* _is_valid_url: all([scheme, netloc]) and scheme in ['http', 'https']
IsValidUrl(url) ==
    /\ url.scheme # ""
    /\ url.netloc # ""
    /\ url.scheme \in {"http", "https"}

(***************************************************************************)
(* Paths and file contents.                                                *)
(***************************************************************************)
NoPath == [dir |-> "", name |-> "", n |-> 0]
FilePath(name) == [dir |-> "", name |-> name, n |-> 0]

\* capture's output_path = None becomes screenshot_<timestamp>.png
DefaultOutputPath == FilePath("screenshot_<timestamp>.png")
\* capture_multiple_pages' output_dir = None becomes screenshots_<timestamp>
DefaultOutputDir == "screenshots_<timestamp>"
\* Path(output_dir) / f"page_{page_num + 1}.png"
PagePath(dir, k) == [dir |-> dir, name |-> "page", n |-> k]

\* no file was written
NoContent == [kind |-> "none", w |-> 0, h |-> 0, full |-> FALSE]
\* Image.new('RGB', (width, height), color='white')
BlankContent(w, h) == [kind |-> "blank", w |-> w, h |-> h, full |-> FALSE]
\* what page.screenshot writes: the viewport in force, and whether full_page
ShotContent(w, h, full) == [kind |-> "shot", w |-> w, h |-> h, full |-> full]

(***************************************************************************)
(* Events: one call to a collaborator, or one step of the program that     *)
(* cannot raise.  ok says whether the call returned (TRUE) or raised.      *)
(***************************************************************************)
Ev(op, path, w, h, full) ==
    [op |-> op, ok |-> TRUE, path |-> path, w |-> w, h |-> h, full |-> full]
E0(op) == Ev(op, NoPath, 0, 0, FALSE)
\* an event carrying one number: a measurement, a scroll offset
E1(op, v) == Ev(op, NoPath, 0, v, FALSE)

\* Steps of the program itself and the swallowing popup pass never raise.
NeverRaises == {"mark_open", "mark_closed", "page_assigned", "sleep_scroll_delay",
                "sleep_page_delay", "dismiss_popups", "compute_num_pages",
                "sleep_after_click"}
Faultable(e) == e.op \notin NeverRaises

Failed(e) == [e EXCEPT !.ok = FALSE]

(***************************************************************************)
(* The session and its environment as one record, so that the handlers     *)
(* compose: s.is_open, s.playwright, s.browser are the object's fields,    *)
(* the rest is what the driver and the filesystem hold.                    *)
(***************************************************************************)
Cur ==
    [is_open |-> is_open, playwright |-> playwright, browser |-> browser,
     liveDrivers |-> liveDrivers, liveBrowsers |-> liveBrowsers,
     nStart |-> nStart, nLaunch |-> nLaunch, nShutdown |-> nShutdown,
     openPages |-> openPages,
     vw |-> 0, vh |-> 0]       \* the viewport of the call's page: none yet

\* What a call that returned does to the state.
Effect(s, e) ==
    CASE e.op = "playwright_start" ->      \* self._playwright = sync_playwright().start()
            [s EXCEPT !.nStart = @ + 1, !.playwright = s.nStart + 1,
                      !.liveDrivers = @ \cup {s.nStart + 1}]
      [] e.op = "launch" ->                \* self._browser = ...chromium.launch(...)
            [s EXCEPT !.nLaunch = @ + 1, !.browser = s.nLaunch + 1,
                      !.liveBrowsers = @ \cup {s.nLaunch + 1}]
      [] e.op = "mark_open" ->             \* self._is_open = True
            [s EXCEPT !.is_open = TRUE]
      [] e.op = "browser_close" ->         \* self._browser.close()
            [s EXCEPT !.liveBrowsers = @ \ {s.browser},
                      !.nShutdown = IF s.browser \in s.liveBrowsers THEN @ + 1 ELSE @]
      [] e.op = "playwright_stop" ->       \* self._playwright.stop()
            [s EXCEPT !.liveDrivers = @ \ {s.playwright}]
      [] e.op = "mark_closed" ->           \* self._is_open = False
            [s EXCEPT !.is_open = FALSE]
      [] e.op = "new_page" ->              \* self._browser.new_page(viewport=...)
            [s EXCEPT !.openPages = @ + 1, !.vw = e.w, !.vh = e.h]
      [] e.op = "set_viewport_size" ->     \* page.set_viewport_size({...})
            [s EXCEPT !.vw = e.w, !.vh = e.h]
      [] e.op = "page_close" ->            \* page.close()
            [s EXCEPT !.openPages = @ - 1]
      [] OTHER -> s

\* What a call that returned leaves in the file it names: the two calls that
\* write a file are page.screenshot(path=...) and blank_image.save(path).
WritesFile(e) == e.ok /\ e.op \in {"screenshot", "blank_image"}
ContentOf(e) ==
    IF e.op = "blank_image" THEN BlankContent(e.w, e.h)
    ELSE ShotContent(e.w, e.h, e.full)

\* The content of a path after the events of a log: that of the last write.
RECURSIVE FileAfter(_, _)
FileAfter(log, path) ==
    IF log = <<>> THEN NoContent
    ELSE LET e == log[Len(log)] IN
         IF WritesFile(e) /\ e.path = path THEN ContentOf(e)
         ELSE FileAfter(SubSeq(log, 1, Len(log) - 1), path)

\* The paths a log wrote.
PathsWritten(log) == {log[i].path : i \in {j \in 1..Len(log) : WritesFile(log[j])}}

\* Calls that raise whatever the environment chooses: a page asked of a
\* browser process that is gone, and the division by a viewport height of 0.
MustRaise(s, e) ==
    \/ e.op = "new_page" /\ s.browser \notin s.liveBrowsers
    \/ e.op = "compute_num_pages" /\ e.h = 0

\* A capture is taken with the viewport the page has at that moment.
Observed(s, e) ==
    IF e.op = "screenshot" THEN [e EXCEPT !.w = s.vw, !.h = s.vh] ELSE e

\* Run the events from the i-th on; the k-th raises (k = 0: none is made to).
\* The result is the state reached, the events attempted, and whether one raised.
RECURSIVE Run(_, _, _, _)
Run(s, events, i, k) ==
    IF i > Len(events)
    THEN [s |-> s, log |-> <<>>, raised |-> FALSE]
    ELSE LET e == Observed(s, events[i]) IN
         IF i = k \/ MustRaise(s, e)
         THEN [s |-> s, log |-> <<Failed(e)>>, raised |-> TRUE]
         ELSE LET r == Run(Effect(s, e), events, i + 1, k)
              IN  [r EXCEPT !.log = <<e>> \o @]

\* The places of a plan where the environment can make a call raise.
FaultPoints(events) == {0} \cup {k \in 1..Len(events) : Faultable(events[k])}

(***************************************************************************)
(* open() and close()                                                      *)
(***************************************************************************)
OpenPlan == <<E0("playwright_start"), E0("launch"), E0("mark_open")>>

\* open() as it would be without the test of the flag
OpenEventsUnguarded(s) == OpenPlan

\* if not self._is_open: start the driver, launch the browser, set the flag
OpenEvents(s) == IF s.is_open THEN <<>> ELSE OpenPlan

\* if self._is_open: close the browser, stop the driver, clear the flag
CloseEvents(s) ==
    IF ~s.is_open THEN <<>>
    ELSE (IF s.browser # 0 THEN <<E0("browser_close")>> ELSE <<>>)
         \o (IF s.playwright # 0 THEN <<E0("playwright_stop")>> ELSE <<>>)
         \o <<E0("mark_closed")>>

(***************************************************************************)
(* The configuration (ScreenShotConfig).  0 stands for None in the         *)
(* optional viewport fields, and for the driver's own default viewport.    *)
(***************************************************************************)
DefaultConfig ==
    [viewport_auto_adjust |-> FALSE,
     enable_request_throttling |-> FALSE,
     viewport_width |-> 0,
     viewport_height |-> 0,
     max_viewport_width |-> DefaultMaxViewportWidth,
     max_viewport_height |-> DefaultMaxViewportHeight]

\* a configuration file that sets a viewport and turns request throttling on
CustomConfig ==
    [DefaultConfig EXCEPT !.enable_request_throttling = TRUE,
                          !.viewport_width = 1920, !.viewport_height = 1080]

\* either of them, with either default capture mode
Configs ==
    {[c EXCEPT !.viewport_auto_adjust = a] :
        c \in {DefaultConfig, CustomConfig}, a \in BOOLEAN}

(***************************************************************************)
(* What a page reports when measured.                                      *)
(***************************************************************************)
Widths == {1280, 9000}                \* document.documentElement.scrollWidth
DocHeights == {1000, 50000}           \* document.documentElement.scrollHeight
Heights == {0, 1000, 2500}            \* document.body.scrollHeight
ViewportHeights == {0, 1000}          \* window.innerHeight

\* The heights a page reports at successive measurements, the last one from
\* then on: a page of constant height, one that grows and one that shrinks.
HeightSeqs == {<<h>> : h \in Heights} \cup {<<1000, 2500>>, <<2500, 1000>>}
HeightAt(hs, m) == hs[Min(m, Len(hs))]

(***************************************************************************)
(* _setup_page                                                             *)
(***************************************************************************)
\* _setup_page as it would be if it read the instance's setting, not its argument
SetupViewportOfInstance(cfg, auto_adjust) ==
    [w |-> IF ~cfg.viewport_auto_adjust THEN cfg.viewport_width ELSE 0,
     h |-> IF ~cfg.viewport_auto_adjust THEN cfg.viewport_height ELSE 0]

\* the viewport passed to new_page: only when not auto-adjusting
SetupViewport(cfg, auto_adjust) ==
    [w |-> IF ~auto_adjust THEN cfg.viewport_width ELSE 0,
     h |-> IF ~auto_adjust THEN cfg.viewport_height ELSE 0]

SetupEvents(s, cfg, auto_adjust) ==
    LET vp == SetupViewport(cfg, auto_adjust) IN
    OpenEvents(s)
    \o <<Ev("new_page", NoPath, vp.w, vp.h, FALSE),
         E0("set_default_navigation_timeout"),
         E0("set_default_timeout")>>
    \o (IF cfg.enable_request_throttling THEN <<E0("route")>> ELSE <<>>)
    \o <<E0("page_assigned")>>       \* page = self._setup_page(...) has returned

(***************************************************************************)
(* _adjust_viewport_to_page                                                *)
(***************************************************************************)
\* the viewport adjuster as it would be without the maxima
AdjustedViewportUnbounded(cfg, page_width, page_height) ==
    [w |-> page_width, h |-> page_height]

AdjustedViewport(cfg, page_width, page_height) ==
    [w |-> Min(page_width, cfg.max_viewport_width),
     h |-> Min(page_height, cfg.max_viewport_height)]

AdjustEvents(cfg, page_width, page_height) ==
    LET a == AdjustedViewport(cfg, page_width, page_height) IN
    <<Ev("eval_scrollWidth", NoPath, page_width, 0, FALSE),
      Ev("eval_docScrollHeight", NoPath, 0, page_height, FALSE),
      Ev("set_viewport_size", NoPath, a.w, a.h, FALSE),
      E0("reload"),
      E0("wait_networkidle")>>

(***************************************************************************)
(* _scroll_and_load                                                        *)
(***************************************************************************)
\* while scroll_position < total_height: advance, scroll, sleep, re-measure.
\* m counts the height measurements made so far.  With a viewport height of
\* 0 and a height that stays positive the loop never exits: the events then
\* end with the first iteration at the page's final height.
RECURSIVE ScrollLoop(_, _, _, _, _)
ScrollLoop(viewport_height, hs, scroll_position, total_height, m) ==
    IF ~(scroll_position < total_height) THEN <<>>
    ELSE LET pos == scroll_position + viewport_height
             tot == HeightAt(hs, m + 1)
         IN  <<E1("scrollTo", pos), E0("sleep_scroll_delay"),
               E1("eval_scrollHeight", tot)>>
             \o (IF viewport_height = 0 /\ m + 1 >= Len(hs) THEN <<>>
                 ELSE ScrollLoop(viewport_height, hs, pos, tot, m + 1))

\* the loop never exits: the offset stays 0 and no measured height is 0
ScrollHangs(viewport_height, hs) ==
    viewport_height = 0 /\ \A i \in 1..Len(hs) : hs[i] > 0

ScrollEvents(viewport_height, hs) ==
    <<E0("eval_eager_images"),
      E1("eval_innerHeight", viewport_height),
      E1("eval_scrollHeight", hs[1])>>
    \o ScrollLoop(viewport_height, hs, 0, hs[1], 1)

\* height measurements a completed _scroll_and_load has made
ScrollMeasures(viewport_height, hs) ==
    Cardinality({i \in 1..Len(ScrollEvents(viewport_height, hs)) :
                    ScrollEvents(viewport_height, hs)[i].op = "eval_scrollHeight"})

(***************************************************************************)
(* _create_blank_image                                                     *)
(***************************************************************************)
BlankEvent(path) == Ev("blank_image", path, BlankWidth, BlankHeight, FALSE)

\* the one call of a sequence of one raises, or not
OneFault(ok) == IF ok THEN 0 ELSE 1

\* the try body assigned page: the finally clause then closes it
PageAssigned(log) == \E i \in 1..Len(log) : log[i].op = "page_assigned"

(***************************************************************************)
(* capture                                                                 *)
(***************************************************************************)
\* use_auto_adjust = auto_adjust if auto_adjust is not None else self.viewport_auto_adjust
UseAutoAdjust(cfg, auto_adjust) ==
    IF auto_adjust # "none" THEN auto_adjust = "true" ELSE cfg.viewport_auto_adjust

ResolveOutputPath(output_path) ==
    IF output_path = NoPath THEN DefaultOutputPath ELSE output_path

\* the try body of capture as it would be if the capture came before the
\* second wait and the final sleep
CaptureEventsCaptureFirst(s, cfg, path, use_auto_adjust, env) ==
    SetupEvents(s, cfg, use_auto_adjust)
    \o <<E0("goto"), E0("wait_networkidle")>>
    \o (IF use_auto_adjust
        THEN AdjustEvents(cfg, env.w, env.h)
        ELSE ScrollEvents(env.vh, env.hs))
    \o <<Ev("screenshot", path, 0, 0, ~use_auto_adjust),
         E0("wait_networkidle"), E0("wait_for_timeout")>>

\* The try body of capture for a valid URL, in source order.  env is what the
\* page reports: env.w, env.h to the viewport adjuster, env.vh, env.hs to
\* the scroll loop.
CaptureEvents(s, cfg, path, use_auto_adjust, env) ==
    SetupEvents(s, cfg, use_auto_adjust)
    \o <<E0("goto"), E0("wait_networkidle")>>
    \o (IF use_auto_adjust
        THEN AdjustEvents(cfg, env.w, env.h)
        ELSE ScrollEvents(env.vh, env.hs))
    \o <<E0("wait_networkidle"), E0("wait_for_timeout"),
         Ev("screenshot", path, 0, 0, ~use_auto_adjust)>>

CaptureHangs(use_auto_adjust, env) ==
    ~use_auto_adjust /\ ScrollHangs(env.vh, env.hs)

\* try / finally as it would be without the except clause's fallback
GuardedNoFallback(s, body, hangs, k, handler, handlerOk, closeOk, onSuccess) ==
    LET b == Run(s, body, 1, k)
        stuck == ~b.raised /\ hangs
        f == IF PageAssigned(b.log) /\ ~stuck
             THEN Run(b.s, <<E0("page_close")>>, 1, OneFault(closeOk))
             ELSE [s |-> b.s, log |-> <<>>, raised |-> FALSE]
    IN  [s |-> f.s,
         log |-> b.log \o f.log,
         outcome |-> IF stuck THEN "hung"
                     ELSE IF f.raised THEN "raised"
                     ELSE IF b.raised THEN "false"
                     ELSE onSuccess]

\* try / except / finally as it would be if the fallback ran after every
\* body, also one that did not raise
GuardedAlwaysFallback(s, body, hangs, k, handler, handlerOk, closeOk, onSuccess) ==
    LET b == Run(s, body, 1, k)
        stuck == ~b.raised /\ hangs
        h == IF ~stuck
             THEN Run(b.s, handler, 1, OneFault(handlerOk))
             ELSE [s |-> b.s, log |-> <<>>, raised |-> FALSE]
        f == IF PageAssigned(b.log) /\ ~stuck
             THEN Run(h.s, <<E0("page_close")>>, 1, OneFault(closeOk))
             ELSE [s |-> h.s, log |-> <<>>, raised |-> FALSE]
    IN  [s |-> f.s,
         log |-> b.log \o h.log \o f.log,
         outcome |-> IF stuck THEN "hung"
                     ELSE IF h.raised \/ f.raised THEN "raised"
                     ELSE IF b.raised THEN "false"
                     ELSE onSuccess]

\* try / except / finally around a body: on an exception of the body the
\* handler events run; then, when the page was assigned, page.close().  An
\* exception of the handler or of the close reaches the caller.  A body
\* that never ends reaches neither clause.
Guarded(s, body, hangs, k, handler, handlerOk, closeOk, onSuccess) ==
    LET b == Run(s, body, 1, k)
        stuck == ~b.raised /\ hangs
        h == IF b.raised
             THEN Run(b.s, handler, 1, OneFault(handlerOk))
             ELSE [s |-> b.s, log |-> <<>>, raised |-> FALSE]
        f == IF PageAssigned(b.log) /\ ~stuck
             THEN Run(h.s, <<E0("page_close")>>, 1, OneFault(closeOk))
             ELSE [s |-> h.s, log |-> <<>>, raised |-> FALSE]
    IN  [s |-> f.s,
         log |-> b.log \o h.log \o f.log,
         outcome |-> IF stuck THEN "hung"
                     ELSE IF h.raised \/ f.raised THEN "raised"
                     ELSE IF b.raised THEN "false"
                     ELSE onSuccess]

\* capture as it would be if it validated the URL only after the capture
CaptureCallValidatingLate(s, cfg, url, output_path, auto_adjust, env, k, blankOk, closeOk) ==
    LET path == ResolveOutputPath(output_path)
        use_auto_adjust == UseAutoAdjust(cfg, auto_adjust)
        g == Guarded(s, CaptureEvents(s, cfg, path, use_auto_adjust, env),
                     CaptureHangs(use_auto_adjust, env), k,
                     <<BlankEvent(path)>>, blankOk, closeOk, "true")
    IN  IF IsValidUrl(url) \/ g.outcome # "true" THEN g
        ELSE LET r == Run(g.s, <<BlankEvent(path)>>, 1, OneFault(blankOk))
             IN  [s |-> r.s, log |-> g.log \o r.log,
                  outcome |-> IF r.raised THEN "raised" ELSE "false"]

CaptureCall(s, cfg, url, output_path, auto_adjust, env, k, blankOk, closeOk) ==
    LET path == ResolveOutputPath(output_path)
        use_auto_adjust == UseAutoAdjust(cfg, auto_adjust)
    IN  IF ~IsValidUrl(url)
        THEN LET r == Run(s, <<BlankEvent(path)>>, 1, OneFault(blankOk))
             IN  [s |-> r.s, log |-> r.log,
                  outcome |-> IF r.raised THEN "raised" ELSE "false"]
        ELSE Guarded(s, CaptureEvents(s, cfg, path, use_auto_adjust, env),
                     CaptureHangs(use_auto_adjust, env), k,
                     <<BlankEvent(path)>>, blankOk, closeOk, "true")

(***************************************************************************)
(* capture_multiple_pages                                                  *)
(***************************************************************************)
ResolveOutputDir(output_dir) ==
    IF output_dir = "" THEN DefaultOutputDir ELSE output_dir

\* the number of pages as it would be if the division rounded down
NumPagesRoundedDown(total_height, viewport_height) ==
    total_height \div viewport_height

\* num_pages = (total_height + viewport_height - 1) // viewport_height
NumPages(total_height, viewport_height) ==
    (total_height + viewport_height - 1) \div viewport_height

\* the page loop as it would be if it scrolled to the end of each page, not
\* to its start
RECURSIVE PageEventsScrollPast(_, _, _, _, _)
PageEventsScrollPast(cfg, dir, viewport_height, num_pages, page_num) ==
    IF page_num >= num_pages THEN <<>>
    ELSE (IF page_num > 0 THEN <<E0("sleep_page_delay")>> ELSE <<>>)
         \o <<E1("scrollTo", (page_num + 1) * viewport_height),
              E0("wait_networkidle"),
              E0("dismiss_popups"),
              E0("wait_for_timeout"),
              Ev("screenshot", PagePath(dir, page_num + 1), 0, 0, FALSE)>>
         \o PageEventsScrollPast(cfg, dir, viewport_height, num_pages, page_num + 1)

\* the page loop as it would be if it named the files from page_0.png
RECURSIVE PageEventsZeroBased(_, _, _, _, _)
PageEventsZeroBased(cfg, dir, viewport_height, num_pages, page_num) ==
    IF page_num >= num_pages THEN <<>>
    ELSE (IF page_num > 0 THEN <<E0("sleep_page_delay")>> ELSE <<>>)
         \o <<E1("scrollTo", page_num * viewport_height),
              E0("wait_networkidle"),
              E0("dismiss_popups"),
              E0("wait_for_timeout"),
              Ev("screenshot", PagePath(dir, page_num), 0, 0, FALSE)>>
         \o PageEventsZeroBased(cfg, dir, viewport_height, num_pages, page_num + 1)

\* for page_num in range(num_pages), from page_num on
RECURSIVE PageEvents(_, _, _, _, _)
PageEvents(cfg, dir, viewport_height, num_pages, page_num) ==
    IF page_num >= num_pages THEN <<>>
    ELSE (IF page_num > 0 THEN <<E0("sleep_page_delay")>> ELSE <<>>)
         \o <<E1("scrollTo", page_num * viewport_height),
              E0("wait_networkidle"),
              E0("dismiss_popups"),
              E0("wait_for_timeout"),
              Ev("screenshot", PagePath(dir, page_num + 1), 0, 0, FALSE)>>
         \o PageEvents(cfg, dir, viewport_height, num_pages, page_num + 1)

\* The try body of capture_multiple_pages for a valid URL, in source order.
\* total_height is the measurement that follows those of the scroll loop.
MultiEvents(s, cfg, dir, env) ==
    LET total_height == HeightAt(env.hs, ScrollMeasures(env.vh, env.hs) + 1)
        viewport_height == env.vh
    IN  SetupEvents(s, cfg, FALSE)
        \o <<E0("goto"), E0("wait_networkidle")>>
        \o ScrollEvents(env.vh, env.hs)
        \o <<E1("eval_scrollHeight", total_height),
             E1("eval_innerHeight", viewport_height),
             Ev("compute_num_pages", NoPath, total_height, viewport_height, FALSE)>>
        \o (IF viewport_height = 0 THEN <<>>
            ELSE PageEvents(cfg, dir, viewport_height,
                            NumPages(total_height, viewport_height), 0))

\* capture_multiple_pages as it would be if the invalid-URL path wrote nothing
MultiCallInvalidUrlNoBlank(s, cfg, url, output_dir, env, k, mkdirOk, blankOk, closeOk) ==
    LET dir == ResolveOutputDir(output_dir)
        d == Run(s, <<Ev("mkdir", PagePath(dir, 0), 0, 0, FALSE)>>, 1, OneFault(mkdirOk))
    IN  IF d.raised \/ ~IsValidUrl(url)
        THEN [s |-> d.s, log |-> d.log, outcome |-> "false"]
        ELSE LET g == Guarded(d.s, MultiEvents(d.s, cfg, dir, env),
                              ScrollHangs(env.vh, env.hs), k,
                              <<>>, TRUE, closeOk, "true")
             IN  [g EXCEPT !.log = d.log \o @]

\* capture_multiple_pages as it would be with capture's blank-image fallback
MultiCallWithFallback(s, cfg, url, output_dir, env, k, mkdirOk, blankOk, closeOk) ==
    LET dir == ResolveOutputDir(output_dir)
        d == Run(s, <<Ev("mkdir", PagePath(dir, 0), 0, 0, FALSE)>>, 1, OneFault(mkdirOk))
    IN  IF d.raised
        THEN [s |-> d.s, log |-> d.log, outcome |-> "false"]
        ELSE IF ~IsValidUrl(url)
        THEN LET r == Run(d.s, <<BlankEvent(PagePath(dir, 1))>>, 1, OneFault(blankOk))
             IN  [s |-> r.s, log |-> d.log \o r.log,
                  outcome |-> IF r.raised THEN "raised" ELSE "false"]
        ELSE LET g == Guarded(d.s, MultiEvents(d.s, cfg, dir, env),
                              ScrollHangs(env.vh, env.hs), k,
                              <<BlankEvent(PagePath(dir, 1))>>, TRUE, closeOk, "true")
             IN  [g EXCEPT !.log = d.log \o @]

MultiCall(s, cfg, url, output_dir, env, k, mkdirOk, blankOk, closeOk) ==
    LET dir == ResolveOutputDir(output_dir)
        d == Run(s, <<Ev("mkdir", PagePath(dir, 0), 0, 0, FALSE)>>, 1, OneFault(mkdirOk))
    IN  IF d.raised
        THEN [s |-> d.s, log |-> d.log, outcome |-> "false"]
        ELSE IF ~IsValidUrl(url)
        THEN LET r == Run(d.s, <<BlankEvent(PagePath(dir, 1))>>, 1, OneFault(blankOk))
             IN  [s |-> r.s, log |-> d.log \o r.log,
                  outcome |-> IF r.raised THEN "raised" ELSE "false"]
        ELSE LET g == Guarded(d.s, MultiEvents(d.s, cfg, dir, env),
                              ScrollHangs(env.vh, env.hs), k,
                              <<>>, TRUE, closeOk, "true")
             IN  [g EXCEPT !.log = d.log \o @]

(***************************************************************************)
(* __enter__ / __exit__ around one capture (the screenshot() function).    *)
(* When __enter__ raises, __exit__ is not called.                          *)
(***************************************************************************)
ScopedCall(s, cfg, url, output_path, env, kEnter, k, blankOk, closeOk, kExit) ==
    LET en == Run(s, OpenEvents(s), 1, kEnter) IN
    IF en.raised
    THEN [s |-> en.s, log |-> en.log, outcome |-> "raised", entered |-> FALSE]
    ELSE LET body == CaptureCall(en.s, cfg, url, output_path, "none", env,
                                 k, blankOk, closeOk)
             ex == IF body.outcome = "hung"
                   THEN [s |-> body.s, log |-> <<>>, raised |-> FALSE]
                   ELSE Run(body.s, CloseEvents(body.s), 1, kExit)
         IN  [s |-> ex.s, log |-> en.log \o body.log \o ex.log,
              outcome |-> IF ex.raised THEN "raised" ELSE body.outcome,
              entered |-> TRUE]

(***************************************************************************)
(* The state machine.                                                      *)
(***************************************************************************)
\* The URLs the calls are given: a valid one and three invalid ones.
CallUrls == {Url("https", "example.com"), Url("ftp", "example.com"),
             Url("https", ""), Url("", "")}
OutputPaths == {FilePath("out.png")}
AutoAdjustArgs == {"none", "true", "false"}      \* auto_adjust=None/True/False

\* What the page reports to the stage that measures it.
AdjustEnvs == [w : Widths, h : DocHeights, vh : {0}, hs : {<<0>>}]
ScrollEnvs == [w : {0}, h : {0}, vh : ViewportHeights, hs : HeightSeqs]
NoEnv == [w |-> 0, h |-> 0, vh |-> 0, hs |-> <<0>>]
EnvsFor(valid, use_auto_adjust) ==
    IF ~valid THEN {NoEnv}
    ELSE IF use_auto_adjust THEN AdjustEnvs ELSE ScrollEnvs

\* A collaborator call can be made to raise only where it is made.
FaultsIf(reached) == IF reached THEN BOOLEAN ELSE {TRUE}
BodyRaises(s, events, k) == Run(s, events, 1, k).raised
BodyAssignsPage(s, events, k) == PageAssigned(Run(s, events, 1, k).log)

\* What the caller sees of a call: the events it attempted and how it ended.
Seen(r) == [log |-> r.log, outcome |-> r.outcome]

Idle ==
    [op |-> "idle", valid |-> FALSE, path |-> NoPath, arg |-> "none",
     auto |-> FALSE, entered |-> FALSE, outcome |-> "none", log |-> <<>>,
     twin |-> [log |-> <<>>, outcome |-> "none"]]

\* twin: the same call as an instance configured the other way round would
\* have made it (see TwinConfig); for the other operations, the call itself.
LastCall(op, valid, path, arg, auto, entered, r, twin) ==
    [op |-> op, valid |-> valid, path |-> path, arg |-> arg, auto |-> auto,
     entered |-> entered, outcome |-> r.outcome, log |-> r.log, twin |-> Seen(twin)]

\* The instance and argument that must behave as (cfg, auto_adjust) does:
\* for an explicit argument, an instance whose default is that value, called
\* without the argument; for no argument, the default given explicitly.
TwinConfig(cfg, auto_adjust) ==
    IF auto_adjust = "none" THEN cfg
    ELSE [cfg EXCEPT !.viewport_auto_adjust = (auto_adjust = "true")]
TwinArg(cfg, auto_adjust) ==
    IF auto_adjust # "none" THEN "none"
    ELSE IF cfg.viewport_auto_adjust THEN "true" ELSE "false"

\* The call is over (or hangs for ever): its effects become the state.
Commit(r, rec) ==
    /\ is_open' = r.s.is_open
    /\ playwright' = r.s.playwright
    /\ browser' = r.s.browser
    /\ liveDrivers' = r.s.liveDrivers
    /\ liveBrowsers' = r.s.liveBrowsers
    /\ nStart' = r.s.nStart
    /\ nLaunch' = r.s.nLaunch
    /\ nShutdown' = r.s.nShutdown
    /\ openPages' = r.s.openPages
    /\ last' = rec
    /\ calls' = calls + 1
    /\ UNCHANGED config

\* The program is sequential: a call starts when the caller has the result
\* of the previous one.
CanCall == calls < MaxCalls /\ last.op = "idle"

\* open() and close() return None or raise
Outcome(r) ==
    [s |-> r.s, log |-> r.log, outcome |-> IF r.raised THEN "raised" ELSE "none"]

Init ==
    /\ config \in Configs
    /\ is_open = FALSE
    /\ playwright = 0
    /\ browser = 0
    /\ liveDrivers = {}
    /\ liveBrowsers = {}
    /\ nStart = 0
    /\ nLaunch = 0
    /\ nShutdown = 0
    /\ openPages = 0
    /\ last = Idle
    /\ calls = 0

Open ==
    /\ CanCall
    /\ \E k \in FaultPoints(OpenEvents(Cur)) :
          LET r == Outcome(Run(Cur, OpenEvents(Cur), 1, k))
          IN  Commit(r, LastCall("open", FALSE, NoPath, "none", FALSE, FALSE, r, r))

Close ==
    /\ CanCall
    /\ \E k \in FaultPoints(CloseEvents(Cur)) :
          LET r == Outcome(Run(Cur, CloseEvents(Cur), 1, k))
          IN  Commit(r, LastCall("close", FALSE, NoPath, "none", FALSE, FALSE, r, r))

Capture ==
    /\ CanCall
    /\ \E url \in CallUrls, output_path \in OutputPaths, auto_adjust \in AutoAdjustArgs :
          LET valid == IsValidUrl(url)
              path == ResolveOutputPath(output_path)
              use == UseAutoAdjust(config, auto_adjust)
          IN  \E env \in EnvsFor(valid, use) :
              LET body == IF valid THEN CaptureEvents(Cur, config, path, use, env)
                          ELSE <<>>
              IN  \E k \in FaultPoints(body) :
                  \E blankOk \in FaultsIf(~valid \/ BodyRaises(Cur, body, k)),
                     closeOk \in FaultsIf(BodyAssignsPage(Cur, body, k)) :
                     LET r == CaptureCall(Cur, config, url, output_path, auto_adjust,
                                          env, k, blankOk, closeOk)
                         twin == CaptureCall(Cur, TwinConfig(config, auto_adjust), url,
                                             output_path, TwinArg(config, auto_adjust),
                                             env, k, blankOk, closeOk)
                     IN  Commit(r, LastCall("capture", valid, path,
                                            auto_adjust, use, FALSE, r, twin))

CaptureMultiplePages ==
    /\ CanCall
    /\ \E url \in CallUrls, output_dir \in {"shots"}, mkdirOk \in BOOLEAN :
          LET valid == IsValidUrl(url)
              dir == ResolveOutputDir(output_dir)
          IN  \E env \in EnvsFor(valid /\ mkdirOk, FALSE) :
              LET body == IF valid /\ mkdirOk THEN MultiEvents(Cur, config, dir, env)
                          ELSE <<>>
              IN  \E k \in FaultPoints(body) :
                  \E blankOk \in FaultsIf(~valid /\ mkdirOk),
                     closeOk \in FaultsIf(BodyAssignsPage(Cur, body, k)) :
                     LET r == MultiCall(Cur, config, url, output_dir, env, k,
                                        mkdirOk, blankOk, closeOk)
                     IN  Commit(r, LastCall("capture_multiple_pages", valid,
                                            PagePath(dir, 0), "none", FALSE, FALSE, r, r))

Scoped ==
    /\ CanCall
    /\ \E url \in CallUrls, output_path \in {FilePath("out.png")} :
          LET valid == IsValidUrl(url)
              path == ResolveOutputPath(output_path)
              use == UseAutoAdjust(config, "none")
          IN  \E kEnter \in FaultPoints(OpenEvents(Cur)) :
              LET en == Run(Cur, OpenEvents(Cur), 1, kEnter) IN
              \E env \in EnvsFor(valid /\ ~en.raised, use) :
              LET body == IF valid /\ ~en.raised
                          THEN CaptureEvents(en.s, config, path, use, env)
                          ELSE <<>>
              IN  \E k \in FaultPoints(body) :
                  \E blankOk \in FaultsIf(~en.raised /\ (~valid \/ BodyRaises(en.s, body, k))),
                     closeOk \in FaultsIf(BodyAssignsPage(en.s, body, k)),
                     exitOk \in FaultsIf(~en.raised) :
                     LET r == ScopedCall(Cur, config, url, output_path, env,
                                         kEnter, k, blankOk, closeOk, OneFault(exitOk))
                     IN  Commit(r, LastCall("scoped", valid, path, "none",
                                            use, r.entered, r, r))

\* The caller has the result and goes on.
Return ==
    /\ last.op # "idle"
    /\ last.outcome # "hung"
    /\ last' = Idle
    /\ UNCHANGED <<config, is_open, playwright, browser, liveDrivers, liveBrowsers,
                   nStart, nLaunch, nShutdown, openPages, calls>>

Next == Open \/ Close \/ Capture \/ CaptureMultiplePages \/ Scoped \/ Return

Spec == Init /\ [][Next]_vars

(***************************************************************************)
(* _is_valid_url and urlparse.  An input is a value given as url: a str, a *)
(* bytes, None or an int; a str or bytes is written                        *)
(*     [scheme ":"] ["//"] [userinfo "@"] host [":" port] path             *)
(* with any of the parts empty.                                            *)
(***************************************************************************)
UrlTexts ==
    [type : {"str", "bytes"}, scheme : {"", "http", "https", "HTTP", "ftp"},
     slashes : BOOLEAN, userinfo : {"", "user"},
     host : {"", "example.com", "[bad"}, port : {"", "80"}, path : {"", "/a"}]
NoText(type) ==
    [type |-> type, scheme |-> "", slashes |-> FALSE, userinfo |-> "",
     host |-> "", port |-> "", path |-> ""]
UrlInputs == UrlTexts \cup {NoText("None"), NoText("int")}

\* urlparse lowercases the scheme
Lower(scheme) == IF scheme = "HTTP" THEN "http" ELSE scheme

\* urlparse raises: an int cannot be decoded (AttributeError), a network
\* location with an unclosed bracket is an invalid IPv6 URL (ValueError)
UrlparseRaises(input) ==
    \/ input.type = "int"
    \/ input.type \in {"str", "bytes"} /\ input.slashes /\ input.host = "[bad"

\* the network location: what follows "//" up to the path, userinfo and port
\* included; without "//" there is none
Netloc(input) ==
    IF ~input.slashes THEN ""
    ELSE (IF input.userinfo # "" THEN input.userinfo \o "@" ELSE "")
         \o input.host
         \o (IF input.port # "" THEN ":" \o input.port ELSE "")

\* the scheme: the text before the first ":" when it is made of scheme
\* characters, so "example.com:80" has the scheme "example.com"
Scheme(input) ==
    IF input.scheme # "" THEN Lower(input.scheme)
    ELSE IF ~input.slashes /\ input.userinfo = "" /\ input.host = "example.com"
            /\ input.port # ""
         THEN input.host
         ELSE ""

\* result = urlparse(url), for an input on which it returns; of None it
\* makes the empty bytes
Urlparse(input) ==
    [type |-> IF input.type = "None" THEN "bytes" ELSE input.type,
     scheme |-> Scheme(input), netloc |-> Netloc(input),
     hostname |-> IF input.slashes THEN input.host ELSE ""]

\* _is_valid_url: the test of IsValidUrl on the parse, the scheme compared
\* with the strs 'http' and 'https' (a bytes scheme equals neither); an
\* exception of the parse is caught and gives False
IsValidUrlInput(input) ==
    IF UrlparseRaises(input) THEN FALSE
    ELSE LET result == Urlparse(input)
         IN  IsValidUrl(result) /\ result.type = "str"

\* a call of the validator: it returns a boolean and touches nothing
ValidateUrl ==
    /\ CanCall
    /\ \E input \in UrlInputs :
          last' = [op |-> "_is_valid_url", input |-> input, log |-> <<>>,
                   outcome |-> IF IsValidUrlInput(input) THEN "true" ELSE "false"]
    /\ calls' = calls + 1
    /\ UNCHANGED <<config, is_open, playwright, browser, liveDrivers, liveBrowsers,
                   nStart, nLaunch, nShutdown, openPages>>

UrlNext == Open \/ Close \/ ValidateUrl \/ Return

SpecUrl == Init /\ [][UrlNext]_vars

(***************************************************************************)
(* ScreenShotConfig, from_yaml and _flatten_config.  Values are written as *)
(* the YAML document writes them.  A configuration document gives each     *)
(* section as absent, as null (a key with no value) or as a mapping that   *)
(* holds some of the section's keys; a key is named here by the field it   *)
(* sets (scroll.delay is scroll_delay, viewport.width is viewport_width,   *)
(* viewport.max_width is max_viewport_width, and so on).                   *)
(***************************************************************************)
Sections == {"browser", "timeouts", "scroll", "throttling", "viewport", "logging"}

\* the fields _flatten_config sets from each section
FieldsOf(section) ==
    CASE section = "browser" -> {"headless"}
      [] section = "timeouts" -> {"navigation_timeout", "action_timeout", "final_wait"}
      [] section = "scroll" -> {"scroll_delay"}
      [] section = "throttling" -> {"page_delay", "request_delay",
                                    "enable_request_throttling"}
      [] section = "viewport" -> {"viewport_width", "viewport_height",
                                  "viewport_auto_adjust", "max_viewport_width",
                                  "max_viewport_height"}
      [] section = "logging" -> {"verbose"}

Fields == UNION {FieldsOf(section) : section \in Sections}
SectionOf(field) == CHOOSE section \in Sections : field \in FieldsOf(section)

\* the defaults of the dataclass
SettingsDefaults ==
    [navigation_timeout |-> "60000", action_timeout |-> "60000",
     final_wait |-> "5000", scroll_delay |-> "1.0", page_delay |-> "2.0",
     request_delay |-> "0.5", enable_request_throttling |-> "False",
     viewport_width |-> "None", viewport_height |-> "None",
     viewport_auto_adjust |-> "False", max_viewport_width |-> "7680",
     max_viewport_height |-> "43200", headless |-> "True", verbose |-> "False"]

\* the second argument of each .get(key, default) of _flatten_config
FlattenDefaults ==
    [navigation_timeout |-> "60000", action_timeout |-> "60000",
     final_wait |-> "5000", scroll_delay |-> "1.0", page_delay |-> "2.0",
     request_delay |-> "0.5", enable_request_throttling |-> "True",
     viewport_width |-> "None", viewport_height |-> "None",
     viewport_auto_adjust |-> "False", max_viewport_width |-> "7680",
     max_viewport_height |-> "43200", headless |-> "60000", verbose |-> "False"]

\* the value a document gives a key it holds: one that is no default
Supplied ==
    [navigation_timeout |-> "30000", action_timeout |-> "30000",
     final_wait |-> "1000", scroll_delay |-> "0.2", page_delay |-> "3.0",
     request_delay |-> "0.1", enable_request_throttling |-> "True",
     viewport_width |-> "1920", viewport_height |-> "1080",
     viewport_auto_adjust |-> "True", max_viewport_width |-> "3840",
     max_viewport_height |-> "21600", headless |-> "False", verbose |-> "True"]

SectionValues(section) ==
    {[state |-> "absent", keys |-> {}], [state |-> "null", keys |-> {}]}
    \cup {[state |-> "mapping", keys |-> K] : K \in SUBSET FieldsOf(section)}

Documents ==
    [browser : SectionValues("browser"), timeouts : SectionValues("timeouts"),
     scroll : SectionValues("scroll"), throttling : SectionValues("throttling"),
     viewport : SectionValues("viewport"), logging : SectionValues("logging")]

\* config[section].get(...) on a section that is null raises
FlattenRaises(doc) == \E section \in Sections : doc[section].state = "null"

\* _flatten_config: the fields of the sections present, each with the
\* document's value or the default of its .get
FlattenedFields(doc) ==
    UNION {FieldsOf(section) : section \in {x \in Sections : doc[x].state = "mapping"}}
FlattenConfig(doc) ==
    [field \in FlattenedFields(doc) |->
        IF field \in doc[SectionOf(field)].keys
        THEN Supplied[field] ELSE FlattenDefaults[field]]

\* from_yaml: cls(**valid_params), the dataclass defaulting what is not given
FromYaml(doc) ==
    LET flattened_config == FlattenConfig(doc)
    IN  [field \in Fields |->
            IF field \in DOMAIN flattened_config
            THEN flattened_config[field] ELSE SettingsDefaults[field]]

NoSettings == [field \in Fields |-> "unset"]

\* before WebScreenShot(config_file) there is no object
ConfigInit ==
    /\ config = NoSettings
    /\ is_open = FALSE
    /\ playwright = 0
    /\ browser = 0
    /\ liveDrivers = {}
    /\ liveBrowsers = {}
    /\ nStart = 0
    /\ nLaunch = 0
    /\ nShutdown = 0
    /\ openPages = 0
    /\ last = Idle
    /\ calls = 0

\* WebScreenShot(config_file): self.config = ScreenShotConfig.from_yaml(...),
\* an exception of which leaves __init__ as ValueError
Construct ==
    /\ calls = 0
    /\ \E doc \in Documents :
          /\ config' = IF FlattenRaises(doc) THEN config ELSE FromYaml(doc)
          /\ last' = [op |-> "__init__", doc |-> doc, log |-> <<>>,
                      outcome |-> IF FlattenRaises(doc) THEN "raised" ELSE "none"]
    /\ calls' = calls + 1
    /\ UNCHANGED <<is_open, playwright, browser, liveDrivers, liveBrowsers,
                   nStart, nLaunch, nShutdown, openPages>>

ConfigNext == Construct

SpecConfig == ConfigInit /\ [][ConfigNext]_vars

(***************************************************************************)
(* The command line (__main__): one run of the program on parsed flags.    *)
(* output is "" when --output is not given.                                *)
(***************************************************************************)
\* shot.config = ScreenShotConfig(viewport_auto_adjust=True)
FullPageConfig == [DefaultConfig EXCEPT !.viewport_auto_adjust = TRUE]

CliConfig(full_page, multi_page) ==
    IF full_page /\ ~multi_page THEN FullPageConfig ELSE DefaultConfig

CliOutputPath(output) == IF output = "" THEN NoPath ELSE FilePath(output)

\* what the process makes of the operation's result r: whether the object was
\* constructed, which operations were invoked and how the process exits
\* ("none": it does not).  Line 709 reads final_path, which the failing
\* full-page branch never assigned: NameError, caught at line 719.
MainResult(r, full_page, multi_page) ==
    [s |-> r.s, log |-> r.log, outcome |-> r.outcome,
     constructed |-> TRUE,
     invoked |-> <<IF multi_page THEN "capture_multiple_pages" ELSE "capture">>,
     exit |-> IF r.outcome = "hung" THEN "none"
              ELSE IF r.outcome = "raised"
                      \/ (full_page /\ ~multi_page /\ r.outcome = "false")
                   THEN "1" ELSE "0"]

\* the operation the flags select, made on the fresh session s
MainTry(s, full_page, multi_page, url, output, env, k, mkdirOk, blankOk, closeOk) ==
    MainResult(IF multi_page
               THEN MultiCall(s, DefaultConfig, url, output, env, k,
                              mkdirOk, blankOk, closeOk)
               ELSE CaptureCall(s, CliConfig(full_page, multi_page), url,
                                CliOutputPath(output), "none", env, k, blankOk, closeOk),
               full_page, multi_page)

\* the program as it would be without the test of the two flags
MainCallNoFlagCheck(s, full_page, multi_page, url, output, env, k, mkdirOk, blankOk, closeOk) ==
    MainTry(s, full_page, multi_page, url, output, env, k, mkdirOk, blankOk, closeOk)

\* if args.full_page and args.multi_page: print the error and sys.exit(1)
MainCall(s, full_page, multi_page, url, output, env, k, mkdirOk, blankOk, closeOk) ==
    IF full_page /\ multi_page
    THEN [s |-> s, log |-> <<>>, outcome |-> "none", constructed |-> FALSE,
          invoked |-> <<>>, exit |-> "1"]
    ELSE MainTry(s, full_page, multi_page, url, output, env, k, mkdirOk, blankOk, closeOk)

\* the process starts with no object
CliInit == Init /\ config = DefaultConfig

\* the process is over (or hangs for ever): what it did becomes the state
CliCommit(r, cfg, full_page, multi_page, valid) ==
    /\ is_open' = r.s.is_open
    /\ playwright' = r.s.playwright
    /\ browser' = r.s.browser
    /\ liveDrivers' = r.s.liveDrivers
    /\ liveBrowsers' = r.s.liveBrowsers
    /\ nStart' = r.s.nStart
    /\ nLaunch' = r.s.nLaunch
    /\ nShutdown' = r.s.nShutdown
    /\ openPages' = r.s.openPages
    /\ config' = cfg
    /\ calls' = calls + 1
    /\ last' = [op |-> "main", full_page |-> full_page,
                multi_page |-> multi_page, valid |-> valid,
                constructed |-> r.constructed,
                invoked |-> r.invoked, log |-> r.log,
                outcome |-> r.outcome, exit |-> r.exit]

Main ==
    /\ calls = 0
    /\ \E full_page \in BOOLEAN, multi_page \in BOOLEAN,
          url \in CallUrls, output \in {"", "out"} :
          LET valid == IsValidUrl(url)
              rejected == full_page /\ multi_page
              cfg == CliConfig(full_page, multi_page)
              use == UseAutoAdjust(cfg, "none")
          IN  \E mkdirOk \in FaultsIf(multi_page /\ ~rejected) :
              LET runs == valid /\ mkdirOk /\ ~rejected IN
              \E env \in EnvsFor(runs, use /\ ~multi_page) :
              LET body == IF ~runs THEN <<>>
                          ELSE IF multi_page
                          THEN MultiEvents(Cur, cfg, ResolveOutputDir(output), env)
                          ELSE CaptureEvents(Cur, cfg,
                                   ResolveOutputPath(CliOutputPath(output)), use, env)
              IN  \E k \in FaultPoints(body) :
                  \E blankOk \in FaultsIf(/\ ~rejected /\ mkdirOk
                                          /\ \/ ~valid
                                             \/ ~multi_page /\ BodyRaises(Cur, body, k)),
                     closeOk \in FaultsIf(BodyAssignsPage(Cur, body, k)) :
                     CliCommit(MainCall(Cur, full_page, multi_page, url, output,
                                        env, k, mkdirOk, blankOk, closeOk),
                               cfg, full_page, multi_page, valid)

CliNext == Main

SpecCli == CliInit /\ [][CliNext]_vars

(***************************************************************************)
(* _scroll_and_load, step by step: last is the frame of the running call,  *)
(* with its local variables.  The page reports any of ScrollHeights at     *)
(* each measurement, so the height may grow, shrink and oscillate.         *)
(***************************************************************************)
ScrollViewports == {0, 700, 1000}            \* window.innerHeight
ScrollHeights == {0, 500, 1000, 2500, 4000}  \* document.body.scrollHeight

\* viewport_height, total_height, scroll_position: the locals of the call.
\* iterations: the iterations made, counted up to MaxIterations; measured:
\* the heights the page has reported so far
ScrollFrame(pc, viewport_height, total_height, scroll_position, iterations, measured) ==
    [op |-> "_scroll_and_load", pc |-> pc, viewport_height |-> viewport_height,
     total_height |-> total_height, scroll_position |-> scroll_position,
     scrolled |-> iterations > 0, iterations |-> iterations,
     measured |-> measured, outcome |-> "none", log |-> <<>>]

\* the loop as it would be if it advanced by half a viewport
NextScrollPositionHalf(scroll_position, viewport_height) ==
    scroll_position + viewport_height \div 2

\* scroll_position += viewport_height
NextScrollPosition(scroll_position, viewport_height) ==
    scroll_position + viewport_height

Scrolling == last.op = "_scroll_and_load" /\ last.pc = "while"
ScrollDone == last.op = "_scroll_and_load" /\ last.pc = "done"

ScrollUnchanged ==
    UNCHANGED <<config, is_open, playwright, browser, liveDrivers, liveBrowsers,
                nStart, nLaunch, nShutdown, openPages, calls>>

\* the two measurements and scroll_position = 0
ScrollStart ==
    /\ last.op = "idle"
    /\ \E viewport_height \in ScrollViewports, total_height \in ScrollHeights :
          last' = ScrollFrame("while", viewport_height, total_height, 0, 0,
                              {total_height})
    /\ ScrollUnchanged

\* one iteration: advance the offset, scroll, sleep, measure the height again
ScrollStep ==
    /\ Scrolling
    /\ last.scroll_position < last.total_height
    /\ \E total_height \in ScrollHeights :
          last' = ScrollFrame("while", last.viewport_height, total_height,
                              NextScrollPosition(last.scroll_position,
                                                 last.viewport_height),
                              Min(last.iterations + 1, MaxIterations),
                              last.measured \cup {total_height})
    /\ ScrollUnchanged

\* the test of the while fails: the function returns
ScrollExit ==
    /\ Scrolling
    /\ ~(last.scroll_position < last.total_height)
    /\ last' = [last EXCEPT !.pc = "done"]
    /\ ScrollUnchanged

ScrollNext == ScrollStart \/ ScrollStep \/ ScrollExit

\* the call runs on: a step that can be taken is taken
SpecScroll ==
    /\ Init /\ [][ScrollNext]_vars
    /\ WF_vars(ScrollStep) /\ WF_vars(ScrollExit)

(***************************************************************************)
(* _dismiss_popups, selector by selector: last is the frame of the running *)
(* call.  The page answers each query with a list of elements, given here  *)
(* by whether each is visible, and any call to the page can raise.         *)
(***************************************************************************)
\* a selector's elements, as is_visible() answers for each
ElementLists == {<<>>, <<TRUE>>, <<FALSE>>, <<TRUE, TRUE>>, <<FALSE, TRUE>>,
                 <<TRUE, FALSE>>}

\* for element in elements, from the i-th on: click the visible ones
RECURSIVE ElementEvents(_, _, _)
ElementEvents(selector, elements, i) ==
    IF i > Len(elements) THEN <<>>
    ELSE <<Ev("is_visible", NoPath, selector, i, elements[i])>>
         \o (IF elements[i]
             THEN <<Ev("click", NoPath, selector, i, FALSE), E0("sleep_after_click")>>
             ELSE <<>>)
         \o ElementEvents(selector, elements, i + 1)

\* the body of the inner try for one selector
SelectorEvents(selector, elements) ==
    <<Ev("query_selector_all", NoPath, selector, Len(elements), FALSE)>>
    \o ElementEvents(selector, elements, 1)

\* the loop as it would be without the inner try: an exception of a selector
\* reaches the outer except and ends the pass
NextSelectorPcUnguarded(raised) == IF raised THEN "done" ELSE "for"

\* except Exception: pass -- the loop goes on with the next selector
NextSelectorPc(raised) == "for"

\* selector: the index in popup_selectors of the next selector; queried:
\* the selectors queried so far; swallowed: how many an exception cut short
PopupFrame(pc, selector, registered, log, queried, swallowed) ==
    [op |-> "_dismiss_popups", pc |-> pc, selector |-> selector,
     registered |-> registered, log |-> log, queried |-> queried,
     swallowed |-> swallowed, outcome |-> "none"]

Dismissing == last.op = "_dismiss_popups" /\ last.pc = "for"
DismissDone == last.op = "_dismiss_popups" /\ last.pc = "done"

\* page.on("dialog", ...): when it raises, the outer except ends the pass
DismissStart ==
    /\ last.op = "idle"
    /\ \E registered \in BOOLEAN :
          last' = PopupFrame(IF registered THEN "for" ELSE "done", 1, registered,
                             <<>>, {}, 0)
    /\ ScrollUnchanged

\* one iteration of for selector in popup_selectors
DismissSelector ==
    /\ Dismissing
    /\ last.selector <= NumPopupSelectors
    /\ \E elements \in ElementLists :
       \E k \in FaultPoints(SelectorEvents(last.selector, elements)) :
          LET r == Run(Cur, SelectorEvents(last.selector, elements), 1, k)
          IN  last' = PopupFrame(NextSelectorPc(r.raised), last.selector + 1, TRUE,
                                 r.log, last.queried \cup {last.selector},
                                 IF r.raised THEN last.swallowed + 1
                                 ELSE last.swallowed)
    /\ ScrollUnchanged

\* the list is exhausted: the function returns
DismissExit ==
    /\ Dismissing
    /\ last.selector > NumPopupSelectors
    /\ last' = [last EXCEPT !.pc = "done"]
    /\ ScrollUnchanged

PopupNext == DismissStart \/ DismissSelector \/ DismissExit

\* the call runs on: a step that can be taken is taken
SpecPopups ==
    /\ Init /\ [][PopupNext]_vars
    /\ WF_vars(DismissSelector) /\ WF_vars(DismissExit)

(***************************************************************************)
(* Two callers on one session, statement by statement: each runs open(),   *)
(* directly or as the lazy open of a capture's _setup_page, and the        *)
(* statements of the two interleave in any order; when both are over,      *)
(* close() is called once.  last is the frame of the two callers.          *)
(***************************************************************************)
Threads == {1, 2}
CallerKinds == {"open", "capture"}

\* open() as it would be if it went on whatever the flag says
OpenTestPcUnguarded(flag) == "start"

\* if not self._is_open: the caller goes on to start the driver
OpenTestPc(flag) == IF flag THEN "done" ELSE "start"

\* kind: what each caller called; pc: where it is; passed: it read the flag
\* as False at line 265; via: the driver it launched its browser from;
\* failed: a call raised; closed: how the final close() ended ("no": not yet)
ThreadsFrame(kind, pc, passed, via, failed, closed) ==
    [op |-> "threads", kind |-> kind, pc |-> pc, passed |-> passed, via |-> via,
     failed |-> failed, closed |-> closed, outcome |-> "none", log |-> <<>>]

Interleaving == last.op = "threads"
At(t, pc) == Interleaving /\ last.closed = "no" /\ last.pc[t] = pc

\* a statement of a caller has run: the session is s, the frame is frame
Becomes(s, frame) ==
    /\ is_open' = s.is_open
    /\ playwright' = s.playwright
    /\ browser' = s.browser
    /\ liveDrivers' = s.liveDrivers
    /\ liveBrowsers' = s.liveBrowsers
    /\ nStart' = s.nStart
    /\ nLaunch' = s.nLaunch
    /\ nShutdown' = s.nShutdown
    /\ openPages' = s.openPages
    /\ last' = frame
    /\ UNCHANGED <<config, calls>>

\* one statement that calls the driver: it returns or raises
Stmt(r, t, pc, via) ==
    Becomes(r.s, [last EXCEPT !.pc[t] = IF r.raised THEN "raised" ELSE pc,
                              !.via[t] = IF r.raised THEN @ ELSE via,
                              !.failed = @ \/ r.raised])

\* the two callers enter
ThreadsStart ==
    /\ last.op = "idle"
    /\ \E kind \in [Threads -> CallerKinds] :
          Becomes(Cur, ThreadsFrame(kind,
                                    [t \in Threads |->
                                        IF kind[t] = "capture" THEN "setup" ELSE "test"],
                                    [t \in Threads |-> FALSE],
                                    [t \in Threads |-> 0], FALSE, "no"))

\* _setup_page: if not self._is_open: self.open()
SetupTest ==
    \E t \in Threads :
        /\ At(t, "setup")
        /\ Becomes(Cur, [last EXCEPT !.pc[t] = IF is_open THEN "done" ELSE "test"])

\* open: if not self._is_open
OpenTest ==
    \E t \in Threads :
        /\ At(t, "test")
        /\ Becomes(Cur, [last EXCEPT !.pc[t] = OpenTestPc(is_open),
                                     !.passed[t] = ~is_open])

\* self._playwright = sync_playwright().start()
OpenStartDriver ==
    \E t \in Threads, ok \in BOOLEAN :
        /\ At(t, "start")
        /\ Stmt(Run(Cur, <<E0("playwright_start")>>, 1, OneFault(ok)), t, "launch", 0)

\* self._browser = self._playwright.chromium.launch(...)
OpenLaunch ==
    \E t \in Threads, ok \in BOOLEAN :
        /\ At(t, "launch")
        /\ Stmt(Run(Cur, <<E0("launch")>>, 1, OneFault(ok)), t, "mark", playwright)

\* self._is_open = True
OpenMark ==
    \E t \in Threads :
        /\ At(t, "mark")
        /\ Stmt(Run(Cur, <<E0("mark_open")>>, 1, 0), t, "done", last.via[t])

\* both callers are over: close()
CloseAfter ==
    /\ Interleaving /\ last.closed = "no"
    /\ \A t \in Threads : last.pc[t] \in {"done", "raised"}
    /\ \E k \in FaultPoints(CloseEvents(Cur)) :
          Becomes(Run(Cur, CloseEvents(Cur), 1, k).s,
                  [last EXCEPT !.closed = IF Run(Cur, CloseEvents(Cur), 1, k).raised
                                          THEN "raised" ELSE "returned"])

ThreadsNext ==
    \/ ThreadsStart \/ SetupTest \/ OpenTest \/ OpenStartDriver
    \/ OpenLaunch \/ OpenMark \/ CloseAfter

SpecThreads == Init /\ [][ThreadsNext]_vars

(***************************************************************************)
(* Reading a call's log.                                                   *)
(***************************************************************************)
CaptureOps == {"capture", "capture_multiple_pages"}
Returned == last.op # "idle" /\ last.outcome # "hung"

Attempted(log, op) == \E i \in 1..Len(log) : log[i].op = op
Succeeded(log, op) == \E i \in 1..Len(log) : log[i].op = op /\ log[i].ok
Raised(log, op) == \E i \in 1..Len(log) : log[i].op = op /\ ~log[i].ok
Count(log, op) == Cardinality({i \in 1..Len(log) : log[i].op = op /\ log[i].ok})

\* the calls to the browser driver and to a page
FileOps == {"blank_image", "mkdir"}
DriverEvent(e) == Faultable(e) /\ e.op \notin FileOps
\* a call of the try body raised: any but the fallback's write and the close
BodyFailed(log) ==
    \E i \in 1..Len(log) : ~log[i].ok /\ log[i].op \notin {"blank_image", "page_close"}

(***************************************************************************)
(* C1.  Neither capture nor capture_multiple_pages ever raises to its      *)
(* caller: whatever the input and whichever collaborator fails, the call   *)
(* ends by returning a boolean.                                            *)
(* The code does not keep this: see C1_Raises.                             *)
(***************************************************************************)
C1_AlwaysReturnsBoolean ==
    last.op \in CaptureOps => last.outcome \in {"true", "false"}

\* the failing case reached: capture of an invalid URL whose blank-image
\* write fails, which is outside any try
C1_Raises ==
    /\ last.op = "capture" /\ ~last.valid
    /\ Raised(last.log, "blank_image")
    /\ last.outcome = "raised"

(***************************************************************************)
(* C2.  After capture or capture_multiple_pages is over, every page the    *)
(* browser created during the call has been closed, also when a step of    *)
(* page setup after the page's creation fails; so no page is ever open     *)
(* between calls.  (Stated here even for the calls only whose page.close() *)
(* did not itself raise.)                                                  *)
(* The code does not keep this: see C2_Leaks.                              *)
(***************************************************************************)
C2_NoPageLeftOpen ==
    (last.op \in CaptureOps /\ Returned /\ ~Raised(last.log, "page_close"))
        => openPages = 0

\* the failing case reached: the page is created, a later step of
\* _setup_page raises, and capture returns without closing it
C2_Leaks ==
    /\ last.op = "capture" /\ last.outcome = "false"
    /\ Succeeded(last.log, "new_page")
    /\ Raised(last.log, "set_default_navigation_timeout")
    /\ ~Attempted(last.log, "page_close")
    /\ openPages = 1

C4_FailureGivesBlankAndFalse ==
    (/\ last.op = "capture" /\ last.valid
     /\ BodyFailed(last.log)
     /\ ~Raised(last.log, "blank_image") /\ ~Raised(last.log, "page_close")) =>
        /\ FileAfter(last.log, last.path) = [kind |-> "blank", w |-> 800,
                                             h |-> 600, full |-> FALSE]
        /\ last.outcome = "false"

\* a wait that times out after the page was scrolled
C4_Witness ==
    /\ last.op = "capture" /\ last.valid /\ ~last.auto
    /\ Succeeded(last.log, "scrollTo")
    /\ Raised(last.log, "wait_networkidle")
    /\ FileAfter(last.log, last.path).kind = "blank"
    /\ last.outcome = "false"

(***************************************************************************)
(* C5.  capture_multiple_pages with a valid URL: when a call of the try    *)
(* body raises, the operation stops there: nothing but the page's close    *)
(* follows the failing call (no further scroll, no further capture), no    *)
(* blank image is written, the page files already captured keep their      *)
(* content, and the call returns false.  (When the close raises, see C1.)  *)
(***************************************************************************)
C5_MultiPageAborts ==
    (/\ last.op = "capture_multiple_pages" /\ last.valid
     /\ BodyFailed(last.log)) =>
        /\ \A i \in 1..Len(last.log) :
              (~last.log[i].ok /\ last.log[i].op # "page_close") =>
                  \A j \in (i + 1)..Len(last.log) : last.log[j].op = "page_close"
        /\ ~Attempted(last.log, "blank_image")
        /\ \A i \in 1..Len(last.log) :
              (last.log[i].op = "screenshot" /\ last.log[i].ok) =>
                  FileAfter(last.log, last.log[i].path).kind = "shot"
        /\ ~Raised(last.log, "page_close") => last.outcome = "false"

\* page 1 captured, the capture of page 2 raises
C5_Witness ==
    /\ last.op = "capture_multiple_pages" /\ last.valid
    /\ Count(last.log, "screenshot") = 1
    /\ Raised(last.log, "screenshot")
    /\ FileAfter(last.log, PagePath(last.path.dir, 1)).kind = "shot"
    /\ FileAfter(last.log, PagePath(last.path.dir, 2)).kind = "none"
    /\ last.outcome = "false"

(***************************************************************************)
(* C6.  A capture_multiple_pages that succeeds on a page measured          *)
(* total_height H and viewport_height V writes exactly the ceil(H / V)     *)
(* files page_1.png .. page_n.png of the output directory, one capture     *)
(* each, and sleeps page_delay once before each page but the first.        *)
(***************************************************************************)
\* the least n with n * V >= H
Ceil(H, V) == CHOOSE n \in 0..(H + 1) : n * V >= H /\ (n = 0 \/ (n - 1) * V < H)

\* the place in the log of the first event named op; 0 when there is none
Place(log, op) ==
    IF Attempted(log, op)
    THEN CHOOSE i \in 1..Len(log) :
            log[i].op = op /\ \A j \in 1..(i - 1) : log[j].op # op
    ELSE 0

\* page_delay sleeps before the capture of page k
SleepsBefore(log, dir, k) ==
    Cardinality({i \in 1..Len(log) :
        /\ log[i].op = "sleep_page_delay"
        /\ \E j \in (i + 1)..Len(log) :
              log[j].op = "screenshot" /\ log[j].path = PagePath(dir, k)})

C6_PagesAndPacing ==
    (last.op = "capture_multiple_pages" /\ last.outcome = "true") =>
        LET c == Place(last.log, "compute_num_pages")
            H == last.log[c - 2].h      \* total_height, as measured
            V == last.log[c - 1].h      \* viewport_height, as measured
            n == Ceil(H, V)
            dir == last.path.dir
        IN  /\ last.log[c - 2].op = "eval_scrollHeight"
            /\ last.log[c - 1].op = "eval_innerHeight"
            /\ V > 0
            /\ Count(last.log, "screenshot") = n
            /\ PathsWritten(last.log) = {PagePath(dir, k) : k \in 1..n}
            /\ Count(last.log, "sleep_page_delay") = IF n = 0 THEN 0 ELSE n - 1
            /\ \A k \in 1..n : SleepsBefore(last.log, dir, k) = k - 1

\* the page of the example: 2500 high, seen through a viewport of 1000
C6_Witness ==
    /\ last.op = "capture_multiple_pages" /\ last.outcome = "true"
    /\ \E i \in 1..Len(last.log) :
          /\ last.log[i].op = "compute_num_pages"
          /\ last.log[i].w = 2500 /\ last.log[i].h = 1000
    /\ Count(last.log, "screenshot") = 3
    /\ Count(last.log, "sleep_page_delay") = 2

(***************************************************************************)
(* C7.  capture in auto-adjust mode never asks for a full-document         *)
(* capture; when it succeeds it has taken exactly one capture, of the      *)
(* viewport, and the page's viewport is then min(measured width,           *)
(* max_viewport_width) by min(measured height, max_viewport_height), the   *)
(* measures being the document's scroll width and height as the viewport   *)
(* adjuster read them.                                                     *)
(***************************************************************************)
C7_AutoAdjustViewportCapture ==
    (last.op = "capture" /\ last.valid /\ last.auto) =>
        /\ \A i \in 1..Len(last.log) :
              last.log[i].op = "screenshot" => ~last.log[i].full
        /\ last.outcome = "true" =>
              LET shot == last.log[Place(last.log, "screenshot")]
                  mw == last.log[Place(last.log, "eval_scrollWidth")].w
                  mh == last.log[Place(last.log, "eval_docScrollHeight")].h
              IN  /\ Count(last.log, "screenshot") = 1
                  /\ Place(last.log, "eval_scrollWidth") > 0
                  /\ Place(last.log, "eval_docScrollHeight") > 0
                  /\ shot.w = (IF mw <= config.max_viewport_width
                               THEN mw ELSE config.max_viewport_width)
                  /\ shot.h = (IF mh <= config.max_viewport_height
                               THEN mh ELSE config.max_viewport_height)

\* a document wider and higher than the maxima: the capture is 7680 x 43200
C7_Witness ==
    /\ last.op = "capture" /\ last.valid /\ last.auto /\ last.outcome = "true"
    /\ \E i \in 1..Len(last.log) :
          /\ last.log[i].op = "eval_scrollWidth" /\ last.log[i].w = 9000
    /\ \E i \in 1..Len(last.log) :
          /\ last.log[i].op = "screenshot" /\ last.log[i].ok
          /\ last.log[i].w = 7680 /\ last.log[i].h = 43200

(***************************************************************************)
(* C8.  The capture mode is resolved per call.  capture with an explicit   *)
(* auto_adjust makes the same calls, in the same order and with the same   *)
(* arguments, and returns the same result as capture without the argument  *)
(* on an instance that differs only in having that value as its            *)
(* viewport_auto_adjust; and capture without the argument behaves as       *)
(* capture with the instance's viewport_auto_adjust given explicitly.      *)
(***************************************************************************)
C8_ModeResolvedPerCall ==
    last.op = "capture" =>
        /\ last.twin = [log |-> last.log, outcome |-> last.outcome]
        /\ last.auto = (IF last.arg = "none" THEN config.viewport_auto_adjust
                        ELSE last.arg = "true")

\* auto_adjust=True on an instance configured with a viewport and
\* viewport_auto_adjust=False: the viewport adjuster runs
C8_Witness ==
    /\ last.op = "capture" /\ last.valid /\ last.arg = "true"
    /\ ~config.viewport_auto_adjust /\ config.viewport_width # 0
    /\ Succeeded(last.log, "set_viewport_size")
    /\ last.outcome = "true"

(***************************************************************************)
(* C9.  open() and close() are idempotent.  close() on a session that is   *)
(* not open makes no driver call and changes nothing; open() on an open    *)
(* session makes no driver call either, so two open() without a close()    *)
(* launch one browser; and an open() or close() whose driver calls all     *)
(* return keeps launches - shutdowns equal to 1 when the session is open   *)
(* and to 0 when it is closed.                                             *)
(***************************************************************************)
SessionVars == <<is_open, playwright, browser, liveDrivers, liveBrowsers,
                 nStart, nLaunch, nShutdown, openPages>>
Balanced == nLaunch - nShutdown = (IF is_open THEN 1 ELSE 0)
AllReturned(log) == \A i \in 1..Len(log) : log[i].ok

C9_Step ==
    /\ (last'.op = "close" /\ last.op = "idle" /\ ~is_open) =>
          (last'.log = <<>> /\ UNCHANGED SessionVars)
    /\ (last'.op = "open" /\ last.op = "idle" /\ is_open) =>
          (last'.log = <<>> /\ UNCHANGED SessionVars)
    /\ (/\ last'.op \in {"open", "close"} /\ last.op = "idle"
        /\ AllReturned(last'.log) /\ Balanced) => Balanced'

C9_OpenCloseIdempotent == [][C9_Step]_vars

\* open() called on the session a first open() has opened
C9_Witness ==
    /\ last.op = "open" /\ last.log = <<>> /\ calls = 2
    /\ is_open /\ nLaunch = 1 /\ nShutdown = 0

(***************************************************************************)
(* C10.  When a scoped use of a fresh session (__enter__, the body,        *)
(* __exit__) is over, no browser process and no driver instance is live:   *)
(* whether the body returned or raised, and also when __enter__ itself     *)
(* failed after the driver was started.  (Stated here even for the uses    *)
(* only whose shutdown calls did not themselves raise.)                    *)
(* The code does not keep this: see C10_Leaks.                             *)
(***************************************************************************)
C10_ScopedUseReleases ==
    (/\ last.op = "scoped" /\ Returned /\ calls = 1
     /\ ~Raised(last.log, "browser_close") /\ ~Raised(last.log, "playwright_stop"))
        => (liveBrowsers = {} /\ liveDrivers = {})

\* the failing case reached: the driver starts, the launch raises, __exit__
\* is not called and the driver instance stays
C10_Leaks ==
    /\ last.op = "scoped" /\ ~last.entered /\ last.outcome = "raised"
    /\ Succeeded(last.log, "playwright_start") /\ Raised(last.log, "launch")
    /\ ~Attempted(last.log, "playwright_stop")
    /\ liveDrivers # {}

WriteOps == {"screenshot", "blank_image"}

TargetUncreatable ==
    IF last.op = "capture_multiple_pages"
    THEN Raised(last.log, "mkdir")
    ELSE /\ \E i \in 1..Len(last.log) :
               last.log[i].op \in WriteOps /\ last.log[i].path = last.path
         /\ \A i \in 1..Len(last.log) :
               last.log[i].op \in WriteOps => ~last.log[i].ok

C12_UncreatableTargetReturnsFalse ==
    (last.op \in CaptureOps /\ Returned /\ TargetUncreatable) =>
        /\ last.outcome = "false"
        /\ PathsWritten(last.log) = {}
        /\ ~Raised(last.log, "page_close") => openPages = 0

\* the failing case reached: the page is captured, the write of the capture
\* raises, the fallback's write at the same path raises too, and the
\* exception leaves capture after the page was closed
C12_Raises ==
    /\ last.op = "capture" /\ last.valid
    /\ Raised(last.log, "screenshot") /\ Raised(last.log, "blank_image")
    /\ Succeeded(last.log, "page_close") /\ openPages = 0
    /\ PathsWritten(last.log) = {}
    /\ last.outcome = "raised"

\* the part the code keeps: a directory that cannot be created
C12_DirectoryCase ==
    /\ last.op = "capture_multiple_pages" /\ Raised(last.log, "mkdir")
    /\ Len(last.log) = 1 /\ last.outcome = "false" /\ openPages = 0

(***************************************************************************)
(* C13.  The URL validator returns true exactly when its input is a string *)
(* that parses into a URL whose scheme is http or https and whose host     *)
(* component is not empty, and false for every other input; it never       *)
(* raises.                                                                 *)
(* The code does not keep this: see C13_AcceptsHostless.                   *)
(***************************************************************************)
C13_ValidIffHttpAndHost ==
    last.op = "_is_valid_url" =>
        /\ last.outcome \in {"true", "false"}
        /\ (last.outcome = "true") <=>
              /\ last.input.type = "str"
              /\ ~UrlparseRaises(last.input)
              /\ Lower(last.input.scheme) \in {"http", "https"}
              /\ last.input.slashes /\ last.input.host # ""

\* the failing case reached: "http://:80", a network location with a port
\* and no host, is accepted
C13_AcceptsHostless ==
    /\ last.op = "_is_valid_url" /\ last.input.type = "str"
    /\ last.input.scheme = "http" /\ last.input.slashes
    /\ last.input.userinfo = "" /\ last.input.host = "" /\ last.input.port = "80"
    /\ last.outcome = "true"

\* what the code decides instead: a network location that is not empty
C13_ValidIffHttpAndNetloc ==
    last.op = "_is_valid_url" =>
        /\ last.outcome \in {"true", "false"}
        /\ (last.outcome = "true") <=>
              /\ last.input.type = "str"
              /\ ~UrlparseRaises(last.input)
              /\ Lower(last.input.scheme) \in {"http", "https"}
              /\ last.input.slashes
              /\ <<last.input.userinfo, last.input.host, last.input.port>> # <<"", "", "">>

(***************************************************************************)
(* C14.  The configuration resolver defaults every absent key: for a       *)
(* document whose sections are absent or mappings, each field whose key    *)
(* the document holds takes the document's value, and each field whose key *)
(* is absent (also from a section that is present) takes the default the   *)
(* dataclass defines for it.                                               *)
(* The code does not keep this: see C14_WrongDefault.                      *)
(***************************************************************************)
KeyPresent(doc, field) ==
    doc[SectionOf(field)].state = "mapping" /\ field \in doc[SectionOf(field)].keys

C14_AbsentKeysTakeDefaults ==
    (last.op = "__init__" /\ ~FlattenRaises(last.doc)) =>
        /\ last.outcome = "none"
        /\ \A field \in Fields :
              config[field] = IF KeyPresent(last.doc, field)
                              THEN Supplied[field] ELSE SettingsDefaults[field]

\* the failing case reached: a throttling section that sets page_delay only
\* turns request throttling on, which the dataclass has off
C14_WrongDefault ==
    /\ last.op = "__init__" /\ last.outcome = "none"
    /\ last.doc.throttling = [state |-> "mapping", keys |-> {"page_delay"}]
    /\ config.page_delay = "3.0"
    /\ config.enable_request_throttling = "True"
    /\ SettingsDefaults.enable_request_throttling = "False"

(***************************************************************************)
(* C15.  The command line rejects --full-page together with --multi-page:  *)
(* the process exits with status 1 before the session object is            *)
(* constructed, so nothing is launched and no capture operation is         *)
(* invoked.  With at most one of the two flags exactly one operation is    *)
(* invoked, once: capture_multiple_pages for --multi-page, capture         *)
(* otherwise.                                                              *)
(***************************************************************************)
C15_ConflictingFlagsRejected ==
    last.op = "main" =>
        /\ (last.full_page /\ last.multi_page) =>
              /\ last.exit = "1"
              /\ ~last.constructed
              /\ last.invoked = <<>> /\ last.log = <<>>
              /\ nStart = 0 /\ nLaunch = 0 /\ openPages = 0
        /\ ~(last.full_page /\ last.multi_page) =>
              /\ last.constructed
              /\ last.invoked = <<IF last.multi_page THEN "capture_multiple_pages"
                                  ELSE "capture">>

\* both flags given with a valid URL: the process has exited with status 1
C15_Witness ==
    /\ last.op = "main" /\ last.full_page /\ last.multi_page /\ last.valid
    /\ last.exit = "1" /\ ~last.constructed /\ nLaunch = 0

(***************************************************************************)
(* C16.  Popups are dismissed before any capture is taken: in every mode,  *)
(* every call of page.screenshot is preceded, on the call's page, by a     *)
(* popup-dismissal pass made after the navigation and after the capture    *)
(* before it, if any.                                                      *)
(* The code keeps this in capture_multiple_pages only: capture never runs  *)
(* the pass, see C16_CaptureWithoutDismissal.                              *)
(***************************************************************************)
DismissedBefore(log, i) ==
    \E j \in 1..(i - 1) :
        /\ log[j].op = "dismiss_popups"
        /\ \E g \in 1..(j - 1) : log[g].op = "goto" /\ log[g].ok
        /\ \A m \in (j + 1)..(i - 1) : log[m].op # "screenshot"

C16_PopupsDismissedBeforeCapture ==
    last.op \in CaptureOps =>
        \A i \in 1..Len(last.log) :
            last.log[i].op = "screenshot" => DismissedBefore(last.log, i)

\* the failing case reached: a full-document capture taken by capture with
\* no dismissal pass in the whole call
C16_CaptureWithoutDismissal ==
    /\ last.op = "capture" /\ last.valid /\ ~last.auto
    /\ last.outcome = "true"
    /\ Succeeded(last.log, "screenshot")
    /\ ~Attempted(last.log, "dismiss_popups")

\* the mode in which the pass is made: before each page's capture
C16_MultiPageDismisses ==
    last.op = "capture_multiple_pages" =>
        \A i \in 1..Len(last.log) :
            last.log[i].op = "screenshot" => DismissedBefore(last.log, i)

(***************************************************************************)
(* C17.  The incremental scroll loop always terminates, whatever heights   *)
(* the page reports from one measurement to the next; it stops as soon as  *)
(* the scroll offset is at least the height last measured.                 *)
(* The code does not keep the first part: see C17_NoProgress.              *)
(***************************************************************************)
C17_ScrollTerminates == Scrolling ~> ScrollDone

\* the failing case reached: an iteration was made, the offset is where it
\* was and the test of the loop still holds
C17_NoProgress ==
    /\ Scrolling /\ last.scrolled
    /\ last.viewport_height = 0 /\ last.scroll_position = 0
    /\ last.scroll_position < last.total_height

\* the part the code keeps: the loop ends only with the offset at or beyond
\* the height last measured, and makes no iteration once it is
C17_StopsAtOffset ==
    [][/\ ScrollDone' => last'.scroll_position >= last'.total_height
       /\ (Scrolling /\ last.scroll_position >= last.total_height) =>
             (ScrollDone' /\ last'.scroll_position = last.scroll_position)]_vars

\* and with a viewport height that is positive the loop does terminate
C17_TerminatesWhenAdvancing ==
    (Scrolling /\ last.viewport_height > 0) ~> ScrollDone

(***************************************************************************)
(* C18.  In Single mode (auto-adjust resolved false) capture makes its     *)
(* steps in this order and never out of it: navigate, wait network-idle,   *)
(* rewrite lazy images to eager, the incremental scroll loop, wait         *)
(* network-idle again, sleep final_wait, one capture with full-document    *)
(* semantics.  A call that succeeds has made each of them, the capture     *)
(* exactly once; the viewport adjuster (resize, reload) is never run and   *)
(* no capture is issued before the final_wait sleep has returned.          *)
(***************************************************************************)
ScrollOps == {"eval_innerHeight", "eval_scrollHeight", "scrollTo", "sleep_scroll_delay"}
AdjustOps == {"eval_scrollWidth", "eval_docScrollHeight", "set_viewport_size", "reload"}

\* the place of an event in the order of Single mode: 0 is page setup, 8 what
\* follows the body (the fallback's write, the page's close)
SingleRank(log, i) ==
    CASE log[i].op = "goto" -> 1
      [] log[i].op = "wait_networkidle" ->
            IF \E j \in 1..(i - 1) : log[j].op = "eval_eager_images" THEN 5 ELSE 2
      [] log[i].op = "eval_eager_images" -> 3
      [] log[i].op \in ScrollOps -> 4
      [] log[i].op = "wait_for_timeout" -> 6
      [] log[i].op = "screenshot" -> 7
      [] log[i].op \in {"blank_image", "page_close"} -> 8
      [] OTHER -> 0

TimesAt(log, rank) == Cardinality({i \in 1..Len(log) : SingleRank(log, i) = rank})

C18_SingleModeOrder ==
    (last.op = "capture" /\ last.valid /\ ~last.auto) =>
        /\ \A i \in 1..Len(last.log) : last.log[i].op \notin AdjustOps
        /\ \A i \in 1..Len(last.log) : \A j \in i..Len(last.log) :
              SingleRank(last.log, i) <= SingleRank(last.log, j)
        /\ \A rank \in {1, 2, 3, 5, 6, 7} : TimesAt(last.log, rank) <= 1
        /\ \A i \in 1..Len(last.log) :
              last.log[i].op = "screenshot" =>
                  /\ last.log[i].full
                  /\ i > 1 /\ last.log[i - 1].op = "wait_for_timeout"
                  /\ last.log[i - 1].ok
        /\ last.outcome = "true" =>
              /\ \A rank \in {1, 2, 3, 5, 6, 7} : TimesAt(last.log, rank) = 1
              /\ TimesAt(last.log, 4) >= 2
              /\ \A i \in 1..Len(last.log) : last.log[i].ok
              /\ ~Attempted(last.log, "blank_image")

\* a page two viewports high: the loop scrolled twice before the capture
C18_Witness ==
    /\ last.op = "capture" /\ last.valid /\ ~last.auto /\ last.outcome = "true"
    /\ Count(last.log, "scrollTo") >= 2
    /\ \E i \in 1..Len(last.log) :
          last.log[i].op = "screenshot" /\ last.log[i].ok /\ last.log[i].full

(***************************************************************************)
(* C19.  In MultiPage mode the pages are captured in increasing index      *)
(* order 0 .. num_pages - 1, each by the steps, in this order: the pacing  *)
(* sleep when the index is above 0, the scroll to index * viewport_height, *)
(* the wait for network idle, the popup dismissal, the final_wait sleep,   *)
(* the viewport-sized capture to page_{index+1}.png.  total_height and     *)
(* viewport_height are not measured again once num_pages is computed, so   *)
(* the captures and their offsets are those of that one measurement.       *)
(***************************************************************************)
\* what is compared of an event: the call, its scroll offset, its file
StepOf(e) ==
    [op |-> e.op, offset |-> IF e.op = "scrollTo" THEN e.h ELSE 0,
     path |-> e.path, full |-> e.full]
Step(op, offset, path) == [op |-> op, offset |-> offset, path |-> path, full |-> FALSE]

\* the steps of the pages index .. n - 1
RECURSIVE PageSteps(_, _, _, _)
PageSteps(index, n, V, dir) ==
    IF index >= n THEN <<>>
    ELSE (IF index > 0 THEN <<Step("sleep_page_delay", 0, NoPath)>> ELSE <<>>)
         \o <<Step("scrollTo", index * V, NoPath),
              Step("wait_networkidle", 0, NoPath),
              Step("dismiss_popups", 0, NoPath),
              Step("wait_for_timeout", 0, NoPath),
              Step("screenshot", 0, [dir |-> dir, name |-> "page", n |-> index + 1])>>
         \o PageSteps(index + 1, n, V, dir)

\* the events of the page loop: those after the computation of num_pages,
\* the page's close left out
LoopEvents(log) ==
    LET c == Place(log, "compute_num_pages")
    IN  SelectSeq(SubSeq(log, c + 1, Len(log)), LAMBDA e : e.op # "page_close")

C19_MultiPageOrder ==
    (/\ last.op = "capture_multiple_pages" /\ last.valid
     /\ Succeeded(last.log, "compute_num_pages")) =>
        LET c == Place(last.log, "compute_num_pages")
            H == last.log[c].w
            V == last.log[c].h
            loop == LoopEvents(last.log)
            steps == PageSteps(0, Ceil(H, V), V, last.path.dir)
        IN  /\ \A i \in (c + 1)..Len(last.log) :
                  last.log[i].op \notin {"eval_scrollHeight", "eval_innerHeight"}
            /\ Len(loop) <= Len(steps)
            /\ \A i \in 1..Len(loop) : StepOf(loop[i]) = steps[i]
            /\ \A i \in 1..(Len(loop) - 1) : loop[i].ok
            /\ last.outcome = "true" => Len(loop) = Len(steps)

\* a page that grew while it was scrolled, captured as three pages
C19_Witness ==
    /\ last.op = "capture_multiple_pages" /\ last.outcome = "true"
    /\ Count(last.log, "eval_scrollHeight") >= 3
    /\ \E i \in 1..Len(last.log) :
          /\ last.log[i].op = "eval_scrollHeight" /\ last.log[i].h = 1000
    /\ \E i \in 1..Len(last.log) :
          /\ last.log[i].op = "compute_num_pages" /\ last.log[i].w = 2500
    /\ Count(last.log, "screenshot") = 3
    /\ \E i \in 1..Len(last.log) :
          last.log[i].op = "scrollTo" /\ last.log[i].h = 2000
             /\ i > Place(last.log, "compute_num_pages")

(***************************************************************************)
(* C20.  The session owns at most one live browser process and at most one *)
(* started driver instance at any time, whatever sequence of open, close,  *)
(* capture and capture_multiple_pages is made and whichever launch or      *)
(* shutdown fails; and no capture call closes the browser or stops the     *)
(* driver.                                                                 *)
(* The code does not keep this for the driver: see C20_TwoDrivers.         *)
(***************************************************************************)
C20_AtMostOneBrowserAndDriver ==
    /\ Cardinality(liveBrowsers) <= 1
    /\ Cardinality(liveDrivers) <= 1
    /\ last.op \in CaptureOps =>
          /\ ~Attempted(last.log, "browser_close")
          /\ ~Attempted(last.log, "playwright_stop")

\* the failing case reached: a first open() started a driver and failed to
\* launch; the second open() started another one, and both are live
C20_TwoDrivers ==
    /\ last.op = "open" /\ calls = 2 /\ is_open
    /\ nStart = 2 /\ nLaunch = 1
    /\ Cardinality(liveDrivers) = 2
    /\ playwright \in liveDrivers

\* the parts the code keeps: one browser process at most, and captures that
\* leave the session's browser and driver alone
C20_AtMostOneBrowser ==
    /\ Cardinality(liveBrowsers) <= 1
    /\ last.op \in CaptureOps =>
          /\ ~Attempted(last.log, "browser_close")
          /\ ~Attempted(last.log, "playwright_stop")

(***************************************************************************)
(* C21.  Popup dismissal never raises and swallows failures per selector:  *)
(* whichever of the handler registration, the element queries, the         *)
(* visibility checks and the clicks raise, the pass ends by returning; and *)
(* once the handler is registered every selector of the list is queried,   *)
(* in order, whatever failed for the selectors before it, and the visible  *)
(* elements of a selector whose calls all return are each clicked.         *)
(***************************************************************************)
\* every element found visible before the end of the log was clicked next
VisibleClicked(log) ==
    \A i \in 1..Len(log) :
        (log[i].op = "is_visible" /\ log[i].ok /\ log[i].full) =>
            /\ i < Len(log)
            /\ log[i + 1].op = "click"
            /\ log[i + 1].w = log[i].w /\ log[i + 1].h = log[i].h

C21_EverySelectorTried ==
    last.op = "_dismiss_popups" =>
        /\ last.pc \in {"for", "done"} /\ last.outcome = "none"
        /\ last.registered => last.queried = 1..(last.selector - 1)
        /\ (DismissDone /\ last.registered) => last.queried = 1..NumPopupSelectors
        /\ (last.log # <<>>) =>
              /\ last.log[1].op = "query_selector_all"
              /\ last.log[1].w = last.selector - 1
              /\ AllReturned(last.log) =>
                    /\ VisibleClicked(last.log)
                    /\ Count(last.log, "is_visible") = last.log[1].h

C21_PopupsSwallowed ==
    /\ []C21_EverySelectorTried
    /\ (last.op = "_dismiss_popups") ~> DismissDone

\* every selector but the last was cut short by an exception, and the last
\* selector's two visible elements were clicked all the same
C21_Witness ==
    /\ DismissDone /\ last.registered
    /\ last.swallowed = NumPopupSelectors - 1
    /\ AllReturned(last.log)
    /\ last.log[1].w = NumPopupSelectors
    /\ Count(last.log, "click") = 2

(***************************************************************************)
(* C22.  A capture operation touches the file system at its output only.   *)
(* Every write capture attempts is at its output path.  Every write        *)
(* capture_multiple_pages attempts is at page_k.png of its output          *)
(* directory, with 1 <= k <= num_pages (k = 1 for an invalid URL; no k     *)
(* when num_pages was not computed); its one other file-system call is the *)
(* creation of that directory.  Neither makes a call that deletes a file,  *)
(* whether it succeeds or fails.                                           *)
(***************************************************************************)
\* the calls that create or write something in the file system
CreatingOps == {"mkdir", "screenshot", "blank_image"}
\* the calls that leave the file system alone: those to the driver and the
\* page, and the steps of the program itself
PassiveOps ==
    {"playwright_start", "launch", "mark_open", "new_page",
     "set_default_navigation_timeout", "set_default_timeout", "route",
     "page_assigned", "goto", "wait_networkidle", "wait_for_timeout",
     "eval_eager_images", "eval_innerHeight", "eval_scrollHeight", "scrollTo",
     "sleep_scroll_delay", "eval_scrollWidth", "eval_docScrollHeight",
     "set_viewport_size", "reload", "compute_num_pages", "sleep_page_delay",
     "dismiss_popups", "page_close"}

\* the paths of the writes a log attempted, completed or not
PathsAttempted(log) ==
    {log[i].path : i \in {j \in 1..Len(log) : log[j].op \in WriteOps}}

\* the files capture_multiple_pages may write
AllowedPages(log, valid, dir) ==
    IF ~valid THEN {[dir |-> dir, name |-> "page", n |-> 1]}
    ELSE IF ~Succeeded(log, "compute_num_pages") THEN {}
    ELSE LET c == Place(log, "compute_num_pages")
         IN  {[dir |-> dir, name |-> "page", n |-> k] :
                 k \in 1..Ceil(log[c].w, log[c].h)}

C22_WritesOnlyOutputPaths ==
    last.op \in CaptureOps =>
        /\ \A i \in 1..Len(last.log) : last.log[i].op \in CreatingOps \cup PassiveOps
        /\ last.op = "capture" =>
              /\ ~Attempted(last.log, "mkdir")
              /\ PathsAttempted(last.log) \subseteq {last.path}
        /\ last.op = "capture_multiple_pages" =>
              /\ \A i \in 1..Len(last.log) :
                    last.log[i].op = "mkdir" => (i = 1 /\ last.log[i].path = last.path)
              /\ PathsAttempted(last.log)
                    \subseteq AllowedPages(last.log, last.valid, last.path.dir)

\* three pages captured into a directory an earlier call had already used
C22_Witness ==
    /\ last.op = "capture_multiple_pages" /\ last.outcome = "true" /\ calls = 2
    /\ PathsWritten(last.log) = {[dir |-> "shots", name |-> "page", n |-> k] : k \in 1..3}

(***************************************************************************)
(* C23.  open() is not safe against a second caller: the test of the flag  *)
(* and the launch are separate statements.  When two callers of open() (or *)
(* of a capture that opens lazily) on a closed session both read the flag  *)
(* before either has set it, and no call raises, two driver instances are  *)
(* started and two browser processes launched, the fields keep the handles *)
(* assigned last, and close() releases those only: the driver started      *)
(* first stays live for ever, and so does the browser launched first when  *)
(* it was launched from that driver.  Two launches happen in no other      *)
(* case: callers of which one read the flag as set launch one browser,     *)
(* which close() releases.                                                 *)
(***************************************************************************)
BothPassed == \A t \in Threads : last.passed[t]
BothOver == \A t \in Threads : last.pc[t] = "done"

C23_InterleavedOpensLeak ==
    (Interleaving /\ ~last.failed /\ BothOver) =>
        /\ BothPassed <=> nLaunch = 2
        /\ BothPassed =>
              /\ nStart = 2
              /\ playwright = 2 /\ browser = 2
              /\ last.closed = "no" => (liveDrivers = {1, 2} /\ liveBrowsers = {1, 2})
              /\ last.closed = "returned" =>
                    /\ ~is_open
                    /\ liveDrivers = {1}
                    /\ 2 \notin liveBrowsers
                    /\ (\E t \in Threads : last.via[t] = 1) => 1 \in liveBrowsers
        /\ ~BothPassed =>
              /\ nStart = 1 /\ nLaunch = 1
              /\ last.closed = "returned" => (liveDrivers = {} /\ liveBrowsers = {})

\* an open() and a capture's lazy open interleaved, then close(): the session
\* is closed and the first driver and its browser are still running
C23_Witness ==
    /\ Interleaving /\ ~last.failed /\ last.closed = "returned"
    /\ last.kind[1] = "open" /\ last.kind[2] = "capture"
    /\ BothPassed /\ nStart = 2 /\ nLaunch = 2
    /\ ~is_open
    /\ liveDrivers = {1} /\ liveBrowsers = {1}
    /\ \E t \in Threads : last.via[t] = 1

(***************************************************************************)
(* C24.  Progress of the scroll loop.  The viewport height V is measured   *)
(* once, before the loop; each iteration advances the offset by exactly V  *)
(* and measures the height again; the offset never decreases.  Hence, for  *)
(* V > 0: the iterations made never exceed ceil(B / V), B the greatest     *)
(* height measured; a page of constant height H gets exactly ceil(H / V)   *)
(* iterations (none when H = 0); and the loop exits with the offset at or  *)
(* beyond the height measured last.                                        *)
(***************************************************************************)
Greatest(S) == CHOOSE x \in S : \A y \in S : y <= x

C24_Step ==
    (Scrolling /\ last'.op = "_scroll_and_load") =>
        /\ last'.viewport_height = last.viewport_height
        /\ last'.scroll_position >= last.scroll_position
        /\ last'.pc = "while" =>
              /\ last'.scroll_position = last.scroll_position + last.viewport_height
              /\ last'.iterations = IF last.iterations < MaxIterations
                                    THEN last.iterations + 1 ELSE MaxIterations
              /\ last.scroll_position < last.total_height
        /\ last'.pc = "done" =>
              /\ last'.scroll_position = last.scroll_position
              /\ last'.total_height = last.total_height
              /\ last'.iterations = last.iterations

C24_Bounded ==
    (last.op = "_scroll_and_load" /\ last.viewport_height > 0) =>
        /\ last.iterations <= Ceil(Greatest(last.measured), last.viewport_height)
        /\ last.scroll_position = last.iterations * last.viewport_height
        /\ ScrollDone =>
              /\ last.scroll_position >= last.total_height
              /\ last.measured = {last.total_height} =>
                    last.iterations = Ceil(last.total_height, last.viewport_height)

C24_ScrollProgress ==
    /\ []C24_Bounded
    /\ [][C24_Step]_vars
    /\ (Scrolling /\ last.viewport_height > 0) ~> ScrollDone

\* a page that kept the height 4000 seen through a viewport of 700: the loop
\* has ended after 6 iterations, at the offset 4200
C24_Witness ==
    /\ ScrollDone /\ last.viewport_height = 700
    /\ last.measured = {4000} /\ last.iterations = 6
    /\ last.scroll_position = 4200

(***************************************************************************)
(* C25.  In every capture call that returns, exactly one of two things has *)
(* happened at the output path.  Either one call of page.screenshot to it  *)
(* completed: then capture returns true and never called the blank-image   *)
(* fallback.  Or the blank image was written to it, once, as the last      *)
(* write of the call, and no page.screenshot completed: then capture       *)
(* returns false.  So the result is true exactly when a page.screenshot    *)
(* completed; and in no capture call, returning or not, is a blank image   *)
(* written (or attempted) after a page.screenshot that completed.          *)
(***************************************************************************)
\* the place in the log of the last write that completed; 0 when none did
LastWrite(log) ==
    IF \E i \in 1..Len(log) : WritesFile(log[i])
    THEN CHOOSE i \in 1..Len(log) :
            WritesFile(log[i]) /\ \A j \in (i + 1)..Len(log) : ~WritesFile(log[j])
    ELSE 0

Captured(log, path) ==
    /\ Count(log, "screenshot") = 1
    /\ \A i \in 1..Len(log) : log[i].op = "screenshot" => log[i].path = path
    /\ ~Attempted(log, "blank_image")

BlankLast(log, path) ==
    /\ Count(log, "screenshot") = 0
    /\ Count(log, "blank_image") = 1
    /\ LastWrite(log) > 0
    /\ log[LastWrite(log)].op = "blank_image" /\ log[LastWrite(log)].path = path

C25_CaptureOrBlank ==
    last.op = "capture" =>
        /\ last.outcome \in {"true", "false"} =>
              /\ Captured(last.log, last.path) # BlankLast(last.log, last.path)
              /\ Captured(last.log, last.path) <=> last.outcome = "true"
              /\ BlankLast(last.log, last.path) <=> last.outcome = "false"
              /\ Succeeded(last.log, "screenshot") <=> last.outcome = "true"
        /\ \A i \in 1..Len(last.log) :
              (last.log[i].op = "screenshot" /\ last.log[i].ok) =>
                  \A j \in (i + 1)..Len(last.log) : last.log[j].op # "blank_image"

\* the write of the capture raised, the blank image took its place and
\* capture returned false
C25_Witness ==
    /\ last.op = "capture" /\ last.valid /\ last.outcome = "false"
    /\ Raised(last.log, "screenshot")
    /\ BlankLast(last.log, last.path)
    /\ ~Captured(last.log, last.path)

(***************************************************************************)
(* C26.  capture_multiple_pages returns true only when at least one page   *)
(* was captured: a call that returns true has computed num_pages >= 1 and  *)
(* each of page_1.png .. page_{num_pages}.png holds a capture that         *)
(* completed, whatever the page measured, a total_height of 0 and a        *)
(* viewport_height of 0 included.                                          *)
(* The code does not keep this: see C26_TrueWithNoPage.                    *)
(***************************************************************************)
C26_TrueMeansPagesCaptured ==
    (last.op = "capture_multiple_pages" /\ last.outcome = "true") =>
        LET c == Place(last.log, "compute_num_pages")
            n == Ceil(last.log[c].w, last.log[c].h)
        IN  /\ c > 0
            /\ n >= 1
            /\ Count(last.log, "screenshot") >= 1
            /\ \A k \in 1..n :
                  FileAfter(last.log, [dir |-> last.path.dir, name |-> "page",
                                       n |-> k]).kind = "shot"

\* the failing case reached: the page measures a total_height of 0 through
\* a viewport of 1000, num_pages is 0, the loop is not entered and the call
\* returns true with no file written
C26_TrueWithNoPage ==
    /\ last.op = "capture_multiple_pages" /\ last.valid /\ last.outcome = "true"
    /\ \E i \in 1..Len(last.log) :
          /\ last.log[i].op = "compute_num_pages" /\ last.log[i].ok
          /\ last.log[i].w = 0 /\ last.log[i].h = 1000
    /\ ~Attempted(last.log, "screenshot")
    /\ PathsWritten(last.log) = {}

\* the parts the code keeps: a call that returns true has captured every one
\* of its num_pages pages, and a viewport_height of 0 never gives true
C26_TrueMeansAllOfNumPages ==
    (last.op = "capture_multiple_pages" /\ last.outcome = "true") =>
        LET c == Place(last.log, "compute_num_pages")
            n == Ceil(last.log[c].w, last.log[c].h)
        IN  /\ c > 0 /\ last.log[c].h > 0
            /\ Count(last.log, "screenshot") = n
            /\ \A k \in 1..n :
                  FileAfter(last.log, [dir |-> last.path.dir, name |-> "page",
                                       n |-> k]).kind = "shot"
====
